---- MODULE Spec2Model ----
(***************************************************************************)
(* Undo/redo command engine (commandManager.ts, UndoRedoManager) over a    *)
(* dia.Graph of cells.  The manager listens to the graph's add / remove /  *)
(* change notifications, records Commands, groups them into batches and    *)
(* replays them on undo() / redo().                                        *)
(*                                                                         *)
(* Every handler runs synchronously and to completion, so one action of    *)
(* the model is one public call (a graph mutation by the application, or   *)
(* startBatch / stopBatch / undo / redo / clear), including every          *)
(* notification handler it triggers.  The handlers are pure operators on   *)
(* a record "m" of the manager's fields and the graph.                     *)
(***************************************************************************)
EXTENDS Integers, Sequences, FiniteSets, TLC

VARIABLES
    graph,          \* dia.Graph: cell id -> None | Some(attributes)
    undoStack,      \* UndoRedoManager.undoStack: Seq(BatchCommand)
    redoStack,      \* UndoRedoManager.redoStack: Seq(BatchCommand)
    isExecuting,    \* UndoRedoManager.isExecuting
    currentBatch,   \* UndoRedoManager.currentBatch: None | Some(Seq(Command))
    batchDepth,     \* UndoRedoManager.batchDepth
    pendingLabel,   \* UndoRedoManager._pendingLabel: None | Some(label)
    lastOp,         \* history: the public call that produced this state
    before,         \* history: stack sizes, buffer size and depth before lastOp
    recorded,       \* history: Commands recorded by pushCommand during lastOp
    notified,       \* history: notify() calls during lastOp
    thrown,         \* history: lastOp ended by an exception reaching its caller
    undoSnap,       \* history: per undoStack entry, the graph before / after it
    redoSnap,       \* history: per redoStack entry, the graph before / after it
    batchPre,       \* history: the graph at the outermost startBatch()
    clean,          \* history: every graph change since the stacks were last
                    \*   empty was recorded, and no replay ran inside a batch
    evicted,        \* history: None | Some(graph after the batch last shifted out)
    listeners,      \* UndoRedoManager.listeners: Seq(callback)
    notes,          \* history: per notify() during lastOp, what the subscribers
                    \*   were shown and which callbacks ran
    attached,       \* UndoRedoManager.graphListeners is not empty
    registered,     \* sets of onAdd / onRemove / onChange handlers that are
                    \*   registered on the graph
    outerLabel,     \* history: the label passed to the startBatch() that
                    \*   opened the buffer
    mirror,         \* DiagramProvider: the canUndo / canRedo values its
                    \*   effect and its subscriber set last
    routing,        \* applyRoutingListeners: its "change:position" listener
                    \*   is on the graph (applied), the debounce timer is
                    \*   pending (timer)
    preClear,       \* history: Commands of the open buffer that were recorded
                    \*   before the latest clear()
    nested,         \* history: batches popped during lastOp by an undo() or
                    \*   redo() that was called while a replay was in flight
    resizeRotate,   \* setupResizeRotate: the closure's activeElement, overlay,
                    \*   isDragging and dragType, whether its listeners are
                    \*   installed, and the mouse buttons held down on a handle
    multiMove,      \* setupMultiSelectionMove: the closure's isDragging,
                    \*   dragElementId and lastPos, the selection getSelected()
                    \*   returns, and the pointers held down per element
    prior           \* history: while the latest calls are effective undo()s
                    \*   followed by redo()s, the graph and the stacks before
                    \*   each undo() not yet redone (the latest MaxChain)

vars == <<graph, undoStack, redoStack, isExecuting, currentBatch, batchDepth,
          pendingLabel, lastOp, before, recorded, notified, thrown, undoSnap,
          redoSnap, batchPre, clean, evicted, listeners, notes, attached,
          registered, routing, mirror, outerLabel,
          preClear, nested, resizeRotate, multiMove, prior>>

-----------------------------------------------------------------------------
(* Bounds of the exploration and program constants.                        *)

\* Commands held by the two stacks and the open buffer together, above
\* which the application issues no further graph mutation.
MaxCmds == 2
\* Nesting depth above which startBatch() is not called again.
MaxDepth == 2
\* How far below maxStackSize the undo stack may be when a batch is opened
\* in the exploration of the full stack.
MaxDip == 2
\* Consecutive undo() calls whose starting states are remembered.
MaxChain == 2
\* Mouse buttons that may be held down at once.
MaxButtons == 2
\* Subscriptions above which subscribe() is not called again where a
\* callback may be subscribed several times.
MaxSubs == 3
\* private maxStackSize = 100
maxStackSize == 100

-----------------------------------------------------------------------------
(* Values.                                                                 *)

None == <<>>
Some(v) == <<v>>
Get(o) == o[1]

Last(s) == s[Len(s)]
Front(s) == SubSeq(s, 1, Len(s) - 1)

\* Cells of the diagram: two elements and one link between elements.
Elements == {1, 2}
Links == {3}
CellIds == Elements \cup Links
\* An element of a class that is not in the graph's cellNamespace: it can be
\* added as an instance, but not built again from its JSON.
Custom == {4}
\* A second link of an imported diagram, and the ids that clone() gives the
\* links deleteSelected() creates.
MoreLinks == {5}
BridgeIds == {6, 7}
AllLinks == Links \cup MoreLinks \cup BridgeIds
AllCells == CellIds \cup Custom \cup MoreLinks \cup BridgeIds
\* Callbacks the application may subscribe.
Callbacks == {1, 2}

\* The callback DiagramProvider's effect subscribes.
ProviderCb == 0

\* Attribute keys; an attribute a cell does not have reads as undefined.
Keys == {"x", "source", "target", "router"}
Undef == -1
Vals == {0, 1}
Labels == {"drag", "resize"}

ElementAttrs(x) == [k \in Keys |-> IF k = "x" THEN x ELSE Undef]
LinkAttrs(s, t) == [k \in Keys |-> CASE k = "source" -> s
                                     [] k = "target" -> t
                                     [] OTHER -> Undef]

\* The router of a link the application creates ({ name: 'manhattan' }
\* with the default arguments), and the one getRouterForLink() builds: the
\* same with the list of obstacles.
RouterDefault == 0
RECURSIVE ObstacleCode(_)
ObstacleCode(obstacles) ==
    IF obstacles = {} THEN 0
    ELSE LET e == CHOOSE o \in obstacles : TRUE
         IN  2 ^ e + ObstacleCode(obstacles \ {e})
RouterConfig(obstacles) == 1 + ObstacleCode(obstacles)

Present(g, id) == g[id] # None
EmptyGraph == [id \in AllCells |-> None]

\* cell.toJSON(): the id with a copy of the attributes.
ToJSON(g, id) == [id |-> id, attrs |-> Get(g[id])]

\* graph.getConnectedLinks(cell): links whose source or target is the cell.
ConnectedLinks(g, id) ==
    {l \in AllLinks : /\ Present(g, l)
                      /\ l # id
                      /\ (Get(g[l])["source"] = id \/ Get(g[l])["target"] = id)}

\* graph.getConnectedLinks(cell, { inbound: true }) / ({ outbound: true })
Inbound(g, id) == {l \in AllLinks : Present(g, l) /\ Get(g[l])["target"] = id}
Outbound(g, id) == {l \in AllLinks : Present(g, l) /\ Get(g[l])["source"] = id}

-----------------------------------------------------------------------------
(* UndoRedoManager: the recorder and the batch accumulator.                *)

\* listeners.forEach((cb) => cb()): the callbacks run in subscription order.
RECURSIVE CallEach(_, _)
CallEach(ls, called) ==
    IF ls = <<>> THEN called ELSE CallEach(Tail(ls), Append(called, ls[1]))

\* notify(): every subscriber is called once; a callback reads canUndo() and
\* canRedo() of the manager as it is at that moment.
Notify(m) ==
    [m EXCEPT !.mirror = IF \E i \in DOMAIN m.listeners :
                               m.listeners[i] = ProviderCb
                         THEN [canUndo |-> m.undoStack # <<>>,
                               canRedo |-> m.redoStack # <<>>]
                         ELSE @,
              !.notified = @ + 1,
              !.notes = Append(@, [undoStack |-> m.undoStack,
                                   redoStack |-> m.redoStack,
                                   isExecuting |-> m.isExecuting,
                                   called |-> CallEach(m.listeners, <<>>)])]

\* subscribe(callback): the callback is appended, once per call.
SubscribeOp(m, cb) == [m EXCEPT !.listeners = Append(@, cb)]

\* The function subscribe(callback) returned: every entry that is the
\* callback is filtered out.
UnsubscribeOp(m, cb) ==
    [m EXCEPT !.listeners = SelectSeq(@, LAMBDA l : l # cb)]

\* push() without the trim.
PushNoTrim(stack, entry) == Append(stack, entry)

\* push() with a trim that drops the entry just pushed (pop() for shift()).
PushTrimNewest(stack, entry) ==
    LET pushed == Append(stack, entry)
    IN  IF Len(pushed) > maxStackSize THEN Front(pushed) ELSE pushed

\* The undo stack after push() and the trim "if length > maxStackSize, shift()".
PushTrim(stack, entry) ==
    LET pushed == Append(stack, entry)
    IN  IF Len(pushed) > maxStackSize THEN Tail(pushed) ELSE pushed

\* History kept beside PushTrim: the graph after the entry shifted out.
EvictedBy(m, pushed) ==
    IF Len(pushed) > maxStackSize THEN Some(m.undoSnap[1].post) ELSE m.evicted

\* History: the graph before and after a committed batch, kept while the
\* history is clean.
\* Each entry also counts the Commands of its batch that were recorded
\* before the latest clear().
NoSnap == [pre |-> EmptyGraph, post |-> EmptyGraph, old |-> 0]
Snap(m, pre, post) ==
    IF m.clean THEN [pre |-> pre, post |-> post, old |-> 0] ELSE NoSnap
Taint(m) ==
    [m EXCEPT !.clean = FALSE,
              !.undoSnap = [i \in DOMAIN m.undoSnap |->
                              [NoSnap EXCEPT !.old = m.undoSnap[i].old]],
              !.redoSnap = [i \in DOMAIN m.redoSnap |->
                              [NoSnap EXCEPT !.old = m.redoSnap[i].old]],
              !.batchPre = EmptyGraph,
              !.evicted = IF @ = None THEN None ELSE Some(EmptyGraph)]

\* pushCommand that leaves the redo stack alone.
PushCommandKeepRedo(m, command) ==
    IF m.currentBatch # None
    THEN [m EXCEPT !.currentBatch = Some(Append(Get(@), command)),
                   !.recorded = @ + 1]
    ELSE Notify([m EXCEPT
            !.undoStack = PushTrim(@, [commands |-> <<command>>, label |-> None]),
            !.undoSnap = PushTrim(@, Snap(m, m.gpre, m.graph)),
            !.evicted = EvictedBy(m, Append(m.undoStack, command)),
            !.recorded = @ + 1])

\* pushCommand that ignores the open buffer and always commits a singleton.
PushCommandNoBuffer(m, command) ==
    Notify([m EXCEPT
        !.undoStack = PushTrim(@, [commands |-> <<command>>, label |-> None]),
        !.undoSnap = PushTrim(@, Snap(m, m.gpre, m.graph)),
        !.evicted = EvictedBy(m, Append(m.undoStack, command)),
        !.redoStack = <<>>,
        !.redoSnap = <<>>,
        !.recorded = @ + 1])

\* pushCommand(command): into the open buffer, or straight onto the undo
\* stack as a singleton batch, which clears the redo stack and notifies.
PushCommand(m, command) ==
    IF m.currentBatch # None
    THEN [m EXCEPT !.currentBatch = Some(Append(Get(@), command)),
                   !.recorded = @ + 1]
    ELSE Notify([m EXCEPT
            !.undoStack = PushTrim(@, [commands |-> <<command>>, label |-> None]),
            !.undoSnap = PushTrim(@, Snap(m, m.gpre, m.graph)),
            !.evicted = EvictedBy(m, Append(m.undoStack, command)),
            !.redoStack = <<>>,
            !.redoSnap = <<>>,
            !.recorded = @ + 1])

\* onAdd(cell)
OnAdd(m, cell) ==
    IF m.isExecuting THEN m
    ELSE PushCommand(m, [type |-> "add", cellId |-> cell.id,
                         previousState |-> None, newState |-> None,
                         cellJSON |-> Some(cell)])

\* onRemove without the isExecuting check.
OnRemoveUnguarded(m, cell) ==
    PushCommand(m, [type |-> "remove", cellId |-> cell.id,
                    previousState |-> None, newState |-> None,
                    cellJSON |-> Some(cell)])

\* onRemove(cell)
OnRemove(m, cell) ==
    IF m.isExecuting THEN m
    ELSE PushCommand(m, [type |-> "remove", cellId |-> cell.id,
                         previousState |-> None, newState |-> None,
                         cellJSON |-> Some(cell)])

\* JSON.parse(JSON.stringify(v)): a copy of a JSON value; JSON.stringify of
\* undefined is undefined, which JSON.parse rejects with a SyntaxError.
JsonCloneThrows(v) == v = Undef
JsonClone(v) == v

\* onChange that snapshots every attribute of the cell, not only the keys
\* of cell.changed.
OnChangeAllAttrs(m, id, changed, prevAttrs, dry) ==
    IF m.isExecuting \/ dry THEN m
    ELSE IF changed = {} THEN m
    ELSE PushCommand(m, [type |-> "change", cellId |-> id,
            previousState |-> Some(prevAttrs),
            newState |-> Some(Get(m.graph[id])),
            cellJSON |-> None])

\* onChange without the checks of opt.dry and of the changed keys.
OnChangeNoSkip(m, id, changed, prevAttrs, dry) ==
    IF m.isExecuting THEN m
    ELSE PushCommand(m, [type |-> "change", cellId |-> id,
            previousState |-> Some([k \in changed |-> JsonClone(prevAttrs[k])]),
            newState |-> Some([k \in changed |-> JsonClone(Get(m.graph[id])[k])]),
            cellJSON |-> None])

\* onChange(cell, opt): cell.changed holds the keys this set() changed,
\* cell.previousAttributes() the attributes before it.  A dry change is in
\* the graph and not in the history.
OnChange(m, id, changed, prevAttrs, dry) ==
    IF m.isExecuting THEN m
    ELSE IF dry THEN Taint(m)
    ELSE IF changed = {} THEN m
    ELSE IF \E k \in changed :
                JsonCloneThrows(prevAttrs[k]) \/ JsonCloneThrows(Get(m.graph[id])[k])
    THEN Taint([m EXCEPT !.thrown = TRUE])
    ELSE PushCommand(m, [type |-> "change", cellId |-> id,
            previousState |-> Some([k \in changed |-> JsonClone(prevAttrs[k])]),
            newState |-> Some([k \in changed |-> JsonClone(Get(m.graph[id])[k])]),
            cellJSON |-> None])

-----------------------------------------------------------------------------
(* dia.Graph as the manager and the application use it.                    *)

\* attachListeners without the check of graphListeners: a further set of
\* handlers is registered at every call, and graphListeners is overwritten.
AttachListenersNoGuard(m) ==
    [m EXCEPT !.attached = TRUE, !.registered = @ + 1]

\* attachListeners(): nothing when graphListeners is not empty; otherwise
\* one onAdd, one onRemove and one onChange are registered on the graph and
\* their cleanup functions are stored in graphListeners.
AttachListenersOp(m) ==
    IF m.attached THEN m
    ELSE [m EXCEPT !.attached = TRUE, !.registered = @ + 1]

\* detachListeners(): the cleanup functions in graphListeners take their
\* handlers off the graph, and graphListeners is emptied.
DetachListenersOp(m) ==
    [m EXCEPT !.attached = FALSE,
              !.registered = IF m.attached THEN @ - 1 ELSE @]

\* The graph calls every registered handler of the event, one set after the
\* other; a handler that throws ends the dispatch.
RECURSIVE FireAdd(_, _, _)
FireAdd(m, cell, n) ==
    IF n = 0 \/ m.thrown THEN m ELSE FireAdd(OnAdd(m, cell), cell, n - 1)

RECURSIVE FireRemove(_, _, _)
FireRemove(m, cell, n) ==
    IF n = 0 \/ m.thrown THEN m ELSE FireRemove(OnRemove(m, cell), cell, n - 1)

RECURSIVE FireChange(_, _, _, _, _, _)
FireChange(m, id, changed, prevAttrs, dry, n) ==
    IF n = 0 \/ m.thrown THEN m
    ELSE FireChange(OnChange(m, id, changed, prevAttrs, dry),
                    id, changed, prevAttrs, dry, n - 1)

\* A graph event that no handler of the manager receives: the change is not
\* in the history.
Unrecorded(m) == Taint(m)

\* graph.addCell(cell): a cell whose id is already in the graph is not
\* added again; otherwise the cell is inserted and "add" is fired.
GraphAddCell(m, cell) ==
    IF Present(m.graph, cell.id) THEN m
    ELSE LET m1 == [m EXCEPT !.graph[cell.id] = Some(cell.attrs),
                             !.gpre = m.graph]
         IN  IF m.registered > 0 THEN FireAdd(m1, cell, m.registered)
             ELSE Unrecorded(m1)

\* graph.addCell(json): as above, but a cell that is not in the graph yet is
\* first built from its JSON by the constructor the cellNamespace holds for
\* its type, and the graph throws when there is none.
GraphAddJSON(m, cell) ==
    IF Present(m.graph, cell.id) THEN m
    ELSE IF cell.id \in Custom THEN [m EXCEPT !.thrown = TRUE]
    ELSE GraphAddCell(m, cell)

\* One cell leaves the graph and "remove" is fired for it.
RemoveOne(m, id) ==
    LET cell == ToJSON(m.graph, id)
        m1 == [m EXCEPT !.graph[id] = None, !.gpre = m.graph]
    IN  IF m.registered > 0 THEN FireRemove(m1, cell, m.registered)
        ELSE Unrecorded(m1)

\* The connected links are removed first, each firing its own "remove".
RECURSIVE RemoveAll(_, _)
RemoveAll(m, ids) ==
    IF ids = {} THEN m
    ELSE LET id == CHOOSE i \in ids : \A j \in ids : i <= j
         IN  RemoveAll(IF Present(m.graph, id) THEN RemoveOne(m, id) ELSE m,
                       ids \ {id})

\* cell.remove(): the links connected to the cell, then the cell itself.
CellRemove(m, id) ==
    LET m1 == RemoveAll(m, ConnectedLinks(m.graph, id))
    IN  IF Present(m1.graph, id) THEN RemoveOne(m1, id) ELSE m1

\* cell.set(attrs, opt): the keys whose value differs are written and one
\* "change" is fired for them; a set() that changes nothing fires nothing.
CellSet(m, id, attrs, dry) ==
    LET cur == Get(m.graph[id])
        changed == {k \in DOMAIN attrs : cur[k] # attrs[k]}
        new == [k \in Keys |-> IF k \in changed THEN attrs[k] ELSE cur[k]]
        m1 == [m EXCEPT !.graph[id] = Some(new), !.gpre = m.graph,
                        !.routing.timer =
                            @ \/ (m.routing.applied /\ "x" \in changed)]
    IN  IF changed = {} THEN m
        ELSE IF m.registered > 0
        THEN FireChange(m1, id, changed, cur, dry, m.registered)
        ELSE Unrecorded(m1)

\* A "change" event of a cell whose changed keys are empty: the attributes
\* stay, the registered onChange handlers are called.
CellChangeEmpty(m, id) ==
    IF m.registered > 0
    THEN FireChange([m EXCEPT !.gpre = m.graph], id, {},
                    Get(m.graph[id]), FALSE, m.registered)
    ELSE m

\* graph.startBatch(name) / graph.stopBatch(name): the graph counts the
\* batch and fires "batch:start" / "batch:stop"; the manager registers
\* handlers for "add", "remove" and "change" only, so none of its fields
\* changes.
GraphStartBatch(m) == m
GraphStopBatch(m) == m

\* getRouterForLink(graph, link): the obstacles are the elements of the
\* graph other than the link's source and target.
GetRouterForLink(g, l) ==
    RouterConfig({e \in Elements \cup Custom :
                     /\ Present(g, e)
                     /\ e # Get(g[l])["source"]
                     /\ e # Get(g[l])["target"]})

\* links.forEach(link => link.router(...)) with the options opt of set();
\* an exception of a listener ends the loop.
RECURSIVE RerouteEach(_, _, _)
RerouteEach(m, links, dry) ==
    IF links = {} \/ m.thrown THEN m
    ELSE LET l == CHOOSE k \in links : \A o \in links : k <= o
         IN  RerouteEach(CellSet(m, l, [k \in {"router"} |->
                                            GetRouterForLink(m.graph, l)], dry),
                         links \ {l}, dry)

\* rerouteAllLinks with { dry: true } passed to link.router().
RerouteAllLinksDry(m) ==
    LET links == {l \in AllLinks : Present(m.graph, l)}
    IN  IF links = {} THEN m
        ELSE GraphStopBatch(RerouteEach(GraphStartBatch(m), links, TRUE))

\* rerouteAllLinks(graph)
RerouteAllLinks(m) ==
    LET links == {l \in AllLinks : Present(m.graph, l)}
    IN  IF links = {} THEN m
        ELSE GraphStopBatch(RerouteEach(GraphStartBatch(m), links, FALSE))

\* applyRoutingListeners(paper, graph), as far as "change:position" goes:
\* the debounced reroute is registered on the graph.
ApplyRoutingListenersOp(m) == [m EXCEPT !.routing.applied = TRUE]

\* The debounce timer runs out: () => rerouteAllLinks(graph)
DebouncedReroute(m) == RerouteAllLinks([m EXCEPT !.routing.timer = FALSE])

\* graph.addCells(cells): addCell for each cell, in order.
RECURSIVE GraphAddCells(_, _)
GraphAddCells(m, cells) ==
    IF cells = <<>> THEN m
    ELSE GraphAddCells(GraphAddCell(m, cells[1]), Tail(cells))

\* cells.forEach(cell => cell.remove()); a cell that already left the graph
\* with an element it was connected to is not removed again.
RECURSIVE RemoveEach(_, _)
RemoveEach(m, ids) ==
    IF ids = {} THEN m
    ELSE LET id == CHOOSE i \in ids : \A j \in ids : i <= j
         IN  RemoveEach(IF Present(m.graph, id) THEN CellRemove(m, id) ELSE m,
                        ids \ {id})

\* pasteCells / ClipboardManager.paste: the clones are added between
\* graph.startBatch('paste') and graph.stopBatch('paste').
PasteOp(m, cells) == GraphStopBatch(GraphAddCells(GraphStartBatch(m), cells))

\* cutSelectedCells: the cells are removed between graph.startBatch('cut')
\* and graph.stopBatch('cut').
CutOp(m, ids) == GraphStopBatch(RemoveEach(GraphStartBatch(m), ids))

-----------------------------------------------------------------------------
(* UndoRedoManager: batches.                                               *)

\* startBatch that takes the Command list of the batch committed last as
\* its buffer instead of a new list.
StartBatchReopen(m, label) ==
    LET depth == m.batchDepth + 1
        m1 == [m EXCEPT !.batchDepth = depth]
    IN  IF depth = 1
        THEN [m1 EXCEPT !.currentBatch =
                            IF m.undoStack = <<>> THEN Some(<<>>)
                            ELSE Some(m.undoStack[Len(m.undoStack)].commands),
                        !.batchPre = IF m.clean THEN m.graph ELSE EmptyGraph]
        ELSE m1

\* startBatch that stores the label at every depth.
StartBatchLabelAnyDepth(m, label) ==
    LET depth == m.batchDepth + 1
        m1 == [m EXCEPT !.batchDepth = depth]
        m2 == IF depth = 1
              THEN [m1 EXCEPT !.currentBatch = Some(<<>>),
                              !.outerLabel = label,
                              !.batchPre = IF m.clean THEN m.graph ELSE EmptyGraph]
              ELSE m1
    IN  IF label # None
        THEN [m2 EXCEPT !.pendingLabel = label]
        ELSE m2

\* startBatch(label?)
StartBatchOp(m, label) ==
    LET depth == m.batchDepth + 1
        m1 == [m EXCEPT !.batchDepth = depth]
        m2 == IF depth = 1
              THEN [m1 EXCEPT !.currentBatch = Some(<<>>),
                              !.outerLabel = label,
                              !.batchPre = IF m.clean THEN m.graph ELSE EmptyGraph]
              ELSE m1
    IN  IF label # None /\ depth = 1
        THEN [m2 EXCEPT !.pendingLabel = label]
        ELSE m2

\* stopBatch without the check of the depth: the first stopBatch() of a
\* nested batch commits the buffer and sets it to null.
StopBatchNoDepthCheck(m) ==
    LET depth == IF m.batchDepth - 1 > 0 THEN m.batchDepth - 1 ELSE 0
        m1 == [m EXCEPT !.batchDepth = depth]
    IN  IF m1.currentBatch # None
        THEN LET buf == Get(m1.currentBatch)
                 entry == [commands |-> buf, label |-> m1.pendingLabel]
                 m2 == IF Len(buf) > 0
                       THEN [m1 EXCEPT
                               !.undoStack = PushTrim(@, entry),
                               !.undoSnap = PushTrim(@, Snap(m1, m1.batchPre, m1.graph)),
                               !.evicted = EvictedBy(m1, Append(m1.undoStack, entry)),
                               !.redoStack = <<>>,
                               !.redoSnap = <<>>]
                       ELSE m1
             IN  Notify([m2 EXCEPT !.currentBatch = None,
                                   !.pendingLabel = None,
                                   !.batchPre = EmptyGraph, !.preClear = 0])
        ELSE m1

\* stopBatch that commits the buffer at every call, whatever the depth.
StopBatchEveryDepth(m) ==
    LET depth == IF m.batchDepth - 1 > 0 THEN m.batchDepth - 1 ELSE 0
        m1 == [m EXCEPT !.batchDepth = depth]
    IN  IF m1.currentBatch # None
        THEN LET buf == Get(m1.currentBatch)
                 entry == [commands |-> buf, label |-> m1.pendingLabel]
                 m2 == IF Len(buf) > 0
                       THEN [m1 EXCEPT
                               !.undoStack = PushTrim(@, entry),
                               !.undoSnap = PushTrim(@, Snap(m1, m1.batchPre, m1.graph)),
                               !.evicted = EvictedBy(m1, Append(m1.undoStack, entry)),
                               !.redoStack = <<>>,
                               !.redoSnap = <<>>]
                       ELSE m1
             IN  Notify([m2 EXCEPT
                    !.currentBatch = IF depth = 0 THEN None ELSE Some(<<>>),
                    !.pendingLabel = None])
        ELSE m1

\* stopBatch without the check that the buffer holds a Command.
StopBatchPushEmpty(m) ==
    LET depth == IF m.batchDepth - 1 > 0 THEN m.batchDepth - 1 ELSE 0
        m1 == [m EXCEPT !.batchDepth = depth]
    IN  IF depth = 0 /\ m1.currentBatch # None
        THEN LET buf == Get(m1.currentBatch)
                 entry == [commands |-> buf, label |-> m1.pendingLabel]
                 m2 == [m1 EXCEPT
                          !.undoStack = PushTrim(@, entry),
                          !.undoSnap = PushTrim(@, Snap(m1, m1.batchPre, m1.graph)),
                          !.evicted = EvictedBy(m1, Append(m1.undoStack, entry)),
                          !.redoStack = <<>>,
                          !.redoSnap = <<>>]
             IN  Notify([m2 EXCEPT !.currentBatch = None, !.pendingLabel = None,
                                   !.batchPre = EmptyGraph])
        ELSE m1

\* stopBatch without Math.max(0, ...): the depth may go below zero.
StopBatchNoClamp(m) ==
    LET depth == m.batchDepth - 1
        m1 == [m EXCEPT !.batchDepth = depth]
    IN  IF depth = 0 /\ m1.currentBatch # None
        THEN LET buf == Get(m1.currentBatch)
                 entry == [commands |-> buf, label |-> m1.pendingLabel]
                 m2 == IF Len(buf) > 0
                       THEN [m1 EXCEPT
                               !.undoStack = PushTrim(@, entry),
                               !.undoSnap = PushTrim(@, Snap(m1, m1.batchPre, m1.graph)),
                               !.evicted = EvictedBy(m1, Append(m1.undoStack, entry)),
                               !.redoStack = <<>>,
                               !.redoSnap = <<>>]
                       ELSE m1
             IN  Notify([m2 EXCEPT !.currentBatch = None, !.pendingLabel = None,
                                   !.batchPre = EmptyGraph])
        ELSE m1

\* stopBatch()
StopBatchOp(m) ==
    LET depth == IF m.batchDepth - 1 > 0 THEN m.batchDepth - 1 ELSE 0
        m1 == [m EXCEPT !.batchDepth = depth]
    IN  IF depth = 0 /\ m1.currentBatch # None
        THEN LET buf == Get(m1.currentBatch)
                 entry == [commands |-> buf, label |-> m1.pendingLabel]
                 snap == [Snap(m1, m1.batchPre, m1.graph)
                             EXCEPT !.old = m1.preClear]
                 m2 == IF Len(buf) > 0
                       THEN [m1 EXCEPT
                               !.undoStack = PushTrim(@, entry),
                               !.undoSnap = PushTrim(@, snap),
                               !.evicted = EvictedBy(m1, Append(m1.undoStack, entry)),
                               !.redoStack = <<>>,
                               !.redoSnap = <<>>]
                       ELSE m1
             IN  Notify([m2 EXCEPT !.currentBatch = None, !.pendingLabel = None,
                                   !.batchPre = EmptyGraph, !.preClear = 0])
        ELSE m1

\* The ids of the cells in the graph or named by a Command the manager
\* holds; clone() gives the copy an id that is none of them.
CmdIds(commands) == {commands[i].cellId : i \in DOMAIN commands}
UsedIds(m) ==
    {id \in AllCells : Present(m.graph, id)}
        \cup UNION {CmdIds(m.undoStack[i].commands) : i \in DOMAIN m.undoStack}
        \cup UNION {CmdIds(m.redoStack[i].commands) : i \in DOMAIN m.redoStack}
        \cup (IF m.currentBatch = None THEN {} ELSE CmdIds(Get(m.currentBatch)))
CloneId(m) ==
    CHOOSE b \in BridgeIds \ UsedIds(m) : \A c \in BridgeIds \ UsedIds(m) : b <= c

\* The body of the forEach of deleteSelected(): an element with exactly one
\* incoming and one outgoing link gets a copy of the incoming link, from
\* that link's source to the outgoing link's target, added to the graph;
\* then the cell is removed.
DeleteWithBridge(m, id) ==
    LET incoming == Inbound(m.graph, id)
        outgoing == Outbound(m.graph, id)
        inLink == CHOOSE l \in incoming : TRUE
        outLink == CHOOSE l \in outgoing : TRUE
        newLink == [id |-> CloneId(m),
                    attrs |-> [Get(m.graph[inLink]) EXCEPT
                                 !["target"] = Get(m.graph[outLink])["target"]]]
        m1 == IF /\ id \notin AllLinks
                 /\ Cardinality(incoming) = 1
                 /\ Cardinality(outgoing) = 1
              THEN GraphAddCell(m, newLink)
              ELSE m
    IN  IF Present(m1.graph, id) THEN CellRemove(m1, id) ELSE m1

\* selectedCells.forEach(...)
RECURSIVE DeleteEach(_, _)
DeleteEach(m, selected) ==
    IF selected = <<>> THEN m
    ELSE DeleteEach(DeleteWithBridge(m, selected[1]), Tail(selected))

\* deleteSelected with the batch of the graph only, as paste and cut have.
DeleteSelectedGraphBatchOnly(m, selected) ==
    IF selected = <<>> THEN m
    ELSE GraphStopBatch(DeleteEach(GraphStartBatch(m), selected))

\* deleteSelected(): nothing for an empty selection; otherwise the loop runs
\* between startBatch('delete') and stopBatch() of the graph and the manager.
DeleteSelectedOp(m, selected) ==
    IF selected = <<>> THEN m
    ELSE GraphStopBatch(StopBatchOp(
            DeleteEach(StartBatchOp(GraphStartBatch(m), Some("delete")), selected)))

-----------------------------------------------------------------------------
(* setupResizeRotate: the resize gesture on the handles of an element.     *)

\* The state of the closure when setupResizeRotate() returns.
NewResizeRotate ==
    [installed |-> TRUE, activeElement |-> None, overlay |-> FALSE,
     isDragging |-> FALSE, dragType |-> None, buttons |-> 0]

\* setupResizeRotate(paper, graph, onSelectionChange, commandManager): a new
\* closure whose listeners are installed; the buttons held stay held.
SetupResizeRotateOp(m) ==
    [m EXCEPT !.resizeRotate =
        [NewResizeRotate EXCEPT !.buttons = m.resizeRotate.buttons]]

\* cleanupAll()
CleanupAll(m) ==
    [m EXCEPT !.resizeRotate.overlay = FALSE,
              !.resizeRotate.activeElement = None]

\* The function setupResizeRotate() returned: the listeners are removed,
\* then cleanupAll().
TeardownResizeRotateOp(m) ==
    CleanupAll([m EXCEPT !.resizeRotate.installed = FALSE])

\* onElementPointerClick(elementView)
OnElementPointerClick(m, id) ==
    IF m.resizeRotate.activeElement = Some(id) THEN m
    ELSE [CleanupAll(m) EXCEPT !.resizeRotate.activeElement = Some(id)]

\* handleToolbarAction('resize'): the handles are shown, or removed when
\* they are shown already.
HandleToolbarResize(m) ==
    IF m.resizeRotate.activeElement = None THEN m
    ELSE [m EXCEPT !.resizeRotate.overlay = ~@]

\* handleToolbarAction('delete'): cleanupAll(), then the element that was
\* active is removed; remove() of a cell that is in no graph does nothing.
HandleToolbarDelete(m) ==
    IF m.resizeRotate.activeElement = None THEN m
    ELSE LET elementToRemove == Get(m.resizeRotate.activeElement)
             m1 == CleanupAll(m)
         IN  IF Present(m1.graph, elementToRemove)
             THEN CellRemove(m1, elementToRemove)
             ELSE m1

\* ContextMenu.handleDelete: startBatch('delete'), event.cell.remove(),
\* stopBatch().
HandleDelete(m, id) ==
    StopBatchOp(CellRemove(StartBatchOp(m, Some("delete")), id))

\* onOverlayMouseDown(e) on a resize handle
OnOverlayMouseDown(m) ==
    IF m.resizeRotate.activeElement = None THEN m
    ELSE StartBatchOp([m EXCEPT !.resizeRotate.isDragging = TRUE,
                                !.resizeRotate.dragType = Some("resize")],
                      Some("resize"))

\* onMouseMove(e): the element is given the position the pointer is at.
OnMouseMove(m, x) ==
    IF \/ ~m.resizeRotate.isDragging
       \/ m.resizeRotate.activeElement = None
       \/ m.resizeRotate.dragType = None
    THEN m
    ELSE IF Present(m.graph, Get(m.resizeRotate.activeElement))
    THEN CellSet(m, Get(m.resizeRotate.activeElement), [k \in {"x"} |-> x], FALSE)
    ELSE m

\* onMouseUp()
OnMouseUp(m) ==
    IF m.resizeRotate.isDragging
    THEN StopBatchOp([m EXCEPT !.resizeRotate.isDragging = FALSE,
                               !.resizeRotate.dragType = None])
    ELSE m

-----------------------------------------------------------------------------
(* setupMultiSelectionMove: dragging one element of a selection.           *)

\* The state of the closure when setupMultiSelectionMove() returns, with an
\* empty selection and no pointer down.
NewMultiMove ==
    [isDragging |-> FALSE, dragElementId |-> None, lastPos |-> None,
     selected |-> {}, pointers |-> [id \in Elements |-> 0]]

\* onPointerDown(elementView)
OnPointerDown(m, id) ==
    IF Cardinality(m.multiMove.selected) > 1 /\ id \in m.multiMove.selected
    THEN StartBatchOp(
            GraphStartBatch(
                [m EXCEPT !.multiMove.isDragging = TRUE,
                          !.multiMove.dragElementId = Some(id),
                          !.multiMove.lastPos = Some(Get(m.graph[id])["x"])]),
            Some("multi-move"))
    ELSE m

\* selected.forEach: every other selected element is translated by dx; an
\* element that left the graph fires no event.
RECURSIVE TranslateEach(_, _, _)
TranslateEach(m, ids, dx) ==
    IF ids = {} THEN m
    ELSE LET id == CHOOSE i \in ids : \A j \in ids : i <= j
         IN  TranslateEach(
                IF Present(m.graph, id)
                THEN CellSet(m, id, [k \in {"x"} |-> Get(m.graph[id])["x"] + dx],
                             FALSE)
                ELSE m,
                ids \ {id}, dx)

\* onPointerMove(elementView)
OnPointerMove(m, id) ==
    IF \/ ~m.multiMove.isDragging
       \/ Some(id) # m.multiMove.dragElementId
       \/ m.multiMove.lastPos = None
    THEN m
    ELSE LET currentPos == Get(m.graph[id])["x"]
             dx == currentPos - Get(m.multiMove.lastPos)
         IN  IF dx = 0 THEN m
             ELSE [TranslateEach(m, m.multiMove.selected \ {id}, dx)
                      EXCEPT !.multiMove.lastPos = Some(currentPos)]

\* onPointerUp(elementView)
OnPointerUp(m, id) ==
    IF m.multiMove.isDragging /\ Some(id) = m.multiMove.dragElementId
    THEN StopBatchOp(GraphStopBatch(
            [m EXCEPT !.multiMove.isDragging = FALSE,
                      !.multiMove.dragElementId = None,
                      !.multiMove.lastPos = None]))
    ELSE m

-----------------------------------------------------------------------------
(* UndoRedoManager: replay.                                                *)

\* History: a Command is about to be replayed while isExecuting is false.
Unguarded(m) ==
    IF m.isExecuting THEN m ELSE [m EXCEPT !.nested.unguarded = @ + 1]

\* reverseCommand with the bug of writing newState back on a change.
ReverseCommandNewState(m, cmd) ==
    CASE cmd.type = "add" ->
            IF Present(m.graph, cmd.cellId) THEN CellRemove(m, cmd.cellId) ELSE m
      [] cmd.type = "remove" ->
            IF cmd.cellJSON # None THEN GraphAddJSON(m, Get(cmd.cellJSON)) ELSE m
      [] cmd.type = "change" ->
            IF Present(m.graph, cmd.cellId) /\ cmd.newState # None
            THEN CellSet(m, cmd.cellId, Get(cmd.newState), FALSE)
            ELSE m

\* reverseCommand without the check that the cell of a change exists:
\* cell.set on undefined throws a TypeError.
ReverseCommandNoCheck(m, cmd) ==
    CASE cmd.type = "add" ->
            IF Present(m.graph, cmd.cellId) THEN CellRemove(m, cmd.cellId) ELSE m
      [] cmd.type = "remove" ->
            IF cmd.cellJSON # None THEN GraphAddJSON(m, Get(cmd.cellJSON)) ELSE m
      [] cmd.type = "change" ->
            IF ~Present(m.graph, cmd.cellId) THEN [m EXCEPT !.thrown = TRUE]
            ELSE IF cmd.previousState # None
            THEN CellSet(m, cmd.cellId, Get(cmd.previousState), FALSE)
            ELSE m

\* reverseCommand(cmd)
ReverseCommand(m, cmd) ==
    CASE cmd.type = "add" ->
            IF Present(m.graph, cmd.cellId) THEN CellRemove(m, cmd.cellId) ELSE m
      [] cmd.type = "remove" ->
            IF cmd.cellJSON # None THEN GraphAddJSON(m, Get(cmd.cellJSON)) ELSE m
      [] cmd.type = "change" ->
            IF Present(m.graph, cmd.cellId) /\ cmd.previousState # None
            THEN CellSet(m, cmd.cellId, Get(cmd.previousState), FALSE)
            ELSE m

\* applyCommand(cmd)
ApplyCommand(m, cmd) ==
    CASE cmd.type = "add" ->
            IF cmd.cellJSON # None THEN GraphAddJSON(m, Get(cmd.cellJSON)) ELSE m
      [] cmd.type = "remove" ->
            IF Present(m.graph, cmd.cellId) THEN CellRemove(m, cmd.cellId) ELSE m
      [] cmd.type = "change" ->
            IF Present(m.graph, cmd.cellId) /\ cmd.newState # None
            THEN CellSet(m, cmd.cellId, Get(cmd.newState), FALSE)
            ELSE m

\* The loop of undo() with the bug of running in insertion order.
RECURSIVE ReverseUp(_, _, _)
ReverseUp(m, commands, j) ==
    IF j > Len(commands) THEN m
    ELSE ReverseUp(ReverseCommand(m, commands[j]), commands, j + 1)
ReverseForward(m, commands, i) == ReverseUp(m, commands, 1)

\* The loop of undo() with the bug of reversing only the last Command.
ReverseLastOnly(m, commands, i) ==
    IF i < 1 THEN m ELSE ReverseCommand(m, commands[i])

\* for (let i = commands.length - 1; i >= 0; i--) reverseCommand(commands[i])
\* The loop ends at the first Command whose replay throws.
RECURSIVE ReverseFrom(_, _, _)
ReverseFrom(m, commands, i) ==
    IF i < 1 \/ m.thrown THEN m
    ELSE ReverseFrom(ReverseCommand(Unguarded(m), commands[i]), commands, i - 1)

\* The loop of redo() with the bug of running from the last Command to the
\* first, as undo() does.
RECURSIVE ApplyDown(_, _, _)
ApplyDown(m, commands, j) ==
    IF j < 1 THEN m
    ELSE ApplyDown(ApplyCommand(m, commands[j]), commands, j - 1)
ApplyBackward(m, commands, i) == ApplyDown(m, commands, Len(commands))

\* for (const cmd of commands) applyCommand(cmd)
RECURSIVE ApplyFrom(_, _, _)
ApplyFrom(m, commands, i) ==
    IF i > Len(commands) \/ m.thrown THEN m
    ELSE ApplyFrom(ApplyCommand(Unguarded(m), commands[i]), commands, i + 1)

\* History: an effective undo() or redo() starts; one that starts while a
\* replay is in flight is counted, and the history is no longer clean.
EnterReplay(m) ==
    LET m0 == IF m.currentBatch # None \/ m.depth > 0 THEN Taint(m) ELSE m
    IN  [m0 EXCEPT !.nested.pops = @ + (IF m.depth > 0 THEN 1 ELSE 0),
                   !.depth = @ + 1]

\* undo() past "if (!batch) return", with the bug of calling notify() inside
\* the try block, before the batch is pushed and the flag is cleared.
UndoBatchNotifyEarly(m) ==
    LET batch == Last(m.undoStack)
        m0 == EnterReplay(m)
        snap == Last(m0.undoSnap)
        m1 == [m0 EXCEPT !.undoStack = Front(@), !.undoSnap = Front(@),
                         !.isExecuting = TRUE]
        m2 == Notify(ReverseFrom(m1, batch.commands, Len(batch.commands)))
        m3 == IF m2.thrown THEN Taint(m2)
              ELSE [m2 EXCEPT !.redoStack = Append(@, batch),
                              !.redoSnap = Append(@, snap)]
    IN  [m3 EXCEPT !.isExecuting = FALSE, !.depth = @ - 1]

\* undo() past "if (!batch) return" with the flag cleared and notify()
\* called after the try block instead of in a finally block: an exception
\* of the loop skips both.
UndoBatchNoFinally(m) ==
    LET batch == Last(m.undoStack)
        m0 == EnterReplay(m)
        snap == Last(m0.undoSnap)
        m1 == [m0 EXCEPT !.undoStack = Front(@), !.undoSnap = Front(@),
                         !.isExecuting = TRUE]
        m2 == ReverseFrom(m1, batch.commands, Len(batch.commands))
    IN  IF m2.thrown THEN [Taint(m2) EXCEPT !.depth = @ - 1]
        ELSE Notify([m2 EXCEPT !.redoStack = Append(@, batch),
                               !.redoSnap = Append(@, snap),
                               !.isExecuting = FALSE, !.depth = @ - 1])

\* undo() past "if (!batch) return" that does not set isExecuting before
\* the loop.
UndoBatchNoFlag(m) ==
    LET batch == Last(m.undoStack)
        m0 == EnterReplay(m)
        snap == Last(m0.undoSnap)
        m1 == [m0 EXCEPT !.undoStack = Front(@), !.undoSnap = Front(@)]
        m2 == ReverseFrom(m1, batch.commands, Len(batch.commands))
        m3 == IF m2.thrown THEN Taint(m2)
              ELSE [m2 EXCEPT !.redoStack = Append(@, batch),
                              !.redoSnap = Append(@, snap)]
    IN  Notify([m3 EXCEPT !.isExecuting = FALSE, !.depth = @ - 1])

\* undo() past "if (!batch) return": try { loop; redoStack.push(batch) }
\* finally { isExecuting = false; notify() }.  An exception of the loop
\* skips the push and, there being no catch, reaches the caller.
UndoBatch(m) ==
    LET batch == Last(m.undoStack)
        m0 == EnterReplay(m)
        snap == Last(m0.undoSnap)
        m1 == [m0 EXCEPT !.undoStack = Front(@), !.undoSnap = Front(@),
                         !.isExecuting = TRUE]
        m2 == ReverseFrom(m1, batch.commands, Len(batch.commands))
        m3 == IF m2.thrown THEN Taint(m2)
              ELSE [m2 EXCEPT !.redoStack = Append(@, batch),
                              !.redoSnap = Append(@, snap)]
    IN  Notify([m3 EXCEPT !.isExecuting = FALSE, !.depth = @ - 1])

\* undo() with the finally block around the check of the popped batch, so
\* that notify() also runs when there was nothing to undo.
UndoOpNotifyAlways(m) ==
    IF m.undoStack = <<>> THEN Notify(m) ELSE UndoBatch(m)

\* undo()
UndoOp(m) ==
    IF m.undoStack = <<>> THEN m ELSE UndoBatch(m)

\* redo() past "if (!batch) return", with the bug of emptying the redo stack
\* when the batch is pushed back, as a new commit does.
RedoBatchClearsRedo(m) ==
    LET batch == Last(m.redoStack)
        m0 == EnterReplay(m)
        snap == Last(m0.redoSnap)
        m1 == [m0 EXCEPT !.redoStack = Front(@), !.redoSnap = Front(@),
                         !.isExecuting = TRUE]
        m2 == ApplyFrom(m1, batch.commands, 1)
        m3 == IF m2.thrown THEN Taint(m2)
              ELSE [m2 EXCEPT !.undoStack = Append(@, batch),
                              !.undoSnap = Append(@, snap),
                              !.redoStack = <<>>,
                              !.redoSnap = <<>>]
    IN  Notify([m3 EXCEPT !.isExecuting = FALSE, !.depth = @ - 1])

\* redo() past "if (!batch) return"
RedoBatch(m) ==
    LET batch == Last(m.redoStack)
        m0 == EnterReplay(m)
        snap == Last(m0.redoSnap)
        m1 == [m0 EXCEPT !.redoStack = Front(@), !.redoSnap = Front(@),
                         !.isExecuting = TRUE]
        m2 == ApplyFrom(m1, batch.commands, 1)
        m3 == IF m2.thrown THEN Taint(m2)
              ELSE [m2 EXCEPT !.undoStack = Append(@, batch),
                              !.undoSnap = Append(@, snap)]
    IN  Notify([m3 EXCEPT !.isExecuting = FALSE, !.depth = @ - 1])

\* redo()
RedoOp(m) ==
    IF m.redoStack = <<>> THEN m ELSE RedoBatch(m)

\* A listener the application registered on the graph with graph.once(),
\* after the manager's own: on the first event of the graph it calls undo()
\* or redo() (m.hook).  fired: the Command just replayed changed the graph.
Listener(m, fired) ==
    IF ~fired \/ m.thrown \/ m.hook = "none" THEN m
    ELSE IF m.hook = "undo" THEN UndoOp([m EXCEPT !.hook = "none"])
    ELSE RedoOp([m EXCEPT !.hook = "none"])

\* The loops of undo() and redo() with that listener on the graph: it runs
\* inside the graph call of the Command, after the manager's own handler.
RECURSIVE ReverseFromHooked(_, _, _)
ReverseFromHooked(m, commands, i) ==
    IF i < 1 \/ m.thrown THEN m
    ELSE LET m1 == ReverseCommand(Unguarded(m), commands[i])
         IN  ReverseFromHooked(Listener(m1, m1.graph # m.graph), commands, i - 1)

RECURSIVE ApplyFromHooked(_, _, _)
ApplyFromHooked(m, commands, i) ==
    IF i > Len(commands) \/ m.thrown THEN m
    ELSE LET m1 == ApplyCommand(Unguarded(m), commands[i])
         IN  ApplyFromHooked(Listener(m1, m1.graph # m.graph), commands, i + 1)

\* undo() with that listener on the graph
UndoHookedOp(m) ==
    IF m.undoStack = <<>> THEN m
    ELSE LET batch == Last(m.undoStack)
             m0 == EnterReplay(m)
             snap == Last(m0.undoSnap)
             m1 == [m0 EXCEPT !.undoStack = Front(@), !.undoSnap = Front(@),
                              !.isExecuting = TRUE]
             m2 == ReverseFromHooked(m1, batch.commands, Len(batch.commands))
             m3 == IF m2.thrown THEN Taint(m2)
                   ELSE [m2 EXCEPT !.redoStack = Append(@, batch),
                                   !.redoSnap = Append(@, snap)]
         IN  Notify([m3 EXCEPT !.isExecuting = FALSE, !.depth = @ - 1])

\* redo() with that listener on the graph
RedoHookedOp(m) ==
    IF m.redoStack = <<>> THEN m
    ELSE LET batch == Last(m.redoStack)
             m0 == EnterReplay(m)
             snap == Last(m0.redoSnap)
             m1 == [m0 EXCEPT !.redoStack = Front(@), !.redoSnap = Front(@),
                              !.isExecuting = TRUE]
             m2 == ApplyFromHooked(m1, batch.commands, 1)
             m3 == IF m2.thrown THEN Taint(m2)
                   ELSE [m2 EXCEPT !.undoStack = Append(@, batch),
                                   !.undoSnap = Append(@, snap)]
         IN  Notify([m3 EXCEPT !.isExecuting = FALSE, !.depth = @ - 1])

\* clear() that forgets the redo stack.
ClearUndoOnly(m) ==
    Notify([m EXCEPT !.undoStack = <<>>,
                     !.undoSnap = <<>>, !.evicted = None,
                     !.clean = (m.currentBatch = None),
                     !.batchPre = EmptyGraph])

\* clear() without the notify() call.
ClearSilent(m) ==
    [m EXCEPT !.undoStack = <<>>, !.redoStack = <<>>,
              !.undoSnap = <<>>, !.redoSnap = <<>>, !.evicted = None,
              !.clean = (m.currentBatch = None),
              !.batchPre = EmptyGraph,
              !.preClear = IF m.currentBatch = None THEN 0
                           ELSE Len(Get(m.currentBatch))]

\* clear(): the two stacks are emptied; currentBatch and batchDepth are not
\* assigned, so an open buffer keeps the Commands it holds.
ClearOp(m) ==
    Notify([m EXCEPT !.undoStack = <<>>, !.redoStack = <<>>,
                     !.undoSnap = <<>>, !.redoSnap = <<>>, !.evicted = None,
                     !.clean = (m.currentBatch = None),
                     !.batchPre = EmptyGraph,
                     !.preClear = IF m.currentBatch = None THEN 0
                                  ELSE Len(Get(m.currentBatch))])

\* DiagramProvider's effect: attachListeners(), setCanUndo(canUndo()) and
\* setCanRedo(canRedo()), then subscribe(callback).
MountOp(m) ==
    LET m1 == AttachListenersOp(m)
    IN  SubscribeOp([m1 EXCEPT !.mirror = [canUndo |-> m1.undoStack # <<>>,
                                           canRedo |-> m1.redoStack # <<>>]],
                    ProviderCb)

\* The effect's cleanup: detachListeners(), then unsubscribe().
UnmountOp(m) == UnsubscribeOp(DetachListenersOp(m), ProviderCb)

\* canUndo() / canRedo()
canUndo == Len(undoStack) > 0
canRedo == Len(redoStack) > 0

-----------------------------------------------------------------------------
(* The state machine.                                                      *)

\* The fields at the start of a public call named op.
Enter(op) ==
    [graph |-> graph, undoStack |-> undoStack, redoStack |-> redoStack,
     isExecuting |-> isExecuting, currentBatch |-> currentBatch,
     batchDepth |-> batchDepth, pendingLabel |-> pendingLabel,
     lastOp |-> op, recorded |-> 0, notified |-> 0, thrown |-> FALSE,
     undoSnap |-> undoSnap, redoSnap |-> redoSnap, batchPre |-> batchPre,
     clean |-> clean, evicted |-> evicted, gpre |-> graph,
     listeners |-> listeners, notes |-> <<>>, attached |-> attached,
     registered |-> registered, routing |-> routing, mirror |-> mirror,
     outerLabel |-> outerLabel,
     preClear |-> preClear,
     nested |-> [pops |-> 0, unguarded |-> 0], hook |-> "none", depth |-> 0,
     resizeRotate |-> resizeRotate, multiMove |-> multiMove]

BufferLen == IF currentBatch = None THEN 0 ELSE Len(Get(currentBatch))

\* The fields when the call returns.
Return(m) ==
    /\ before' = [undo |-> Len(undoStack), redo |-> Len(redoStack),
                  buffer |-> IF currentBatch = None THEN -1 ELSE BufferLen,
                  depth |-> batchDepth, registered |-> registered]
    /\ graph' = m.graph
    /\ undoStack' = m.undoStack
    /\ redoStack' = m.redoStack
    /\ isExecuting' = m.isExecuting
    /\ currentBatch' = m.currentBatch
    /\ batchDepth' = m.batchDepth
    /\ pendingLabel' = m.pendingLabel
    /\ lastOp' = m.lastOp
    /\ recorded' = m.recorded
    /\ notified' = m.notified
    /\ thrown' = m.thrown
    /\ undoSnap' = m.undoSnap
    /\ redoSnap' = m.redoSnap
    /\ batchPre' = m.batchPre
    /\ clean' = m.clean
    /\ evicted' = m.evicted
    /\ listeners' = m.listeners
    /\ attached' = m.attached
    /\ registered' = m.registered
    /\ routing' = m.routing
    /\ mirror' = m.mirror
    /\ outerLabel' = m.outerLabel
    /\ preClear' = m.preClear
    /\ notes' = m.notes
    /\ nested' = m.nested
    /\ resizeRotate' = m.resizeRotate
    /\ multiMove' = m.multiMove
    /\ prior' = IF m.lastOp = "undo" /\ canUndo
                THEN LET pushed == Append(prior, [graph |-> graph,
                                                  undoStack |-> undoStack,
                                                  redoStack |-> redoStack])
                     IN  IF Len(pushed) > MaxChain THEN Tail(pushed) ELSE pushed
                ELSE IF m.lastOp = "redo" /\ canRedo /\ prior # <<>>
                THEN Front(prior)
                ELSE <<>>

\* new UndoRedoManager(createGraph())
Init ==
    /\ graph = EmptyGraph
    /\ undoStack = <<>>
    /\ redoStack = <<>>
    /\ isExecuting = FALSE
    /\ currentBatch = None
    /\ batchDepth = 0
    /\ pendingLabel = None
    /\ lastOp = "init"
    /\ before = [undo |-> 0, redo |-> 0, buffer |-> -1, depth |-> 0,
                 registered |-> 0]
    /\ recorded = 0
    /\ notified = 0
    /\ thrown = FALSE
    /\ undoSnap = <<>>
    /\ redoSnap = <<>>
    /\ batchPre = EmptyGraph
    /\ clean = TRUE
    /\ evicted = None
    /\ listeners = <<>>
    /\ attached = TRUE
    /\ registered = 1
    /\ routing = [applied |-> FALSE, timer |-> FALSE]
    /\ mirror = [canUndo |-> FALSE, canRedo |-> FALSE]
    /\ outerLabel = None
    /\ preClear = 0
    /\ notes = <<>>
    /\ nested = [pops |-> 0, unguarded |-> 0]
    /\ prior = <<>>
    /\ resizeRotate = [NewResizeRotate EXCEPT !.installed = FALSE]
    /\ multiMove = NewMultiMove

RECURSIVE CountCmds(_)
CountCmds(stack) ==
    IF stack = <<>> THEN 0 ELSE Len(stack[1].commands) + CountCmds(Tail(stack))

TotalCmds == CountCmds(undoStack) + CountCmds(redoStack) + BufferLen
MayMutate == TotalCmds < MaxCmds

\* Cells the application may add: an element at some x, or a link between
\* two distinct elements of the graph.
NewCells(g) ==
    {[id |-> e, attrs |-> ElementAttrs(x)] : e \in Elements \cup Custom, x \in Vals}
    \cup {c \in {[id |-> l, attrs |-> LinkAttrs(st[1], st[2])] :
                    l \in Links, st \in Elements \X Elements} :
            /\ c.attrs["source"] # c.attrs["target"]
            /\ Present(g, c.attrs["source"])
            /\ Present(g, c.attrs["target"])}

\* graph.addCell(cell) by the application, for a cell among ids
AddCell(ids) ==
    /\ \E cell \in NewCells(graph) :
          /\ cell.id \in ids
          /\ ~Present(graph, cell.id)
          /\ Return(GraphAddCell(Enter("add"), cell))

\* cell.remove() by the application
RemoveCell(ids) ==
    /\ \E id \in ids :
          /\ Present(graph, id)
          /\ Return(CellRemove(Enter("remove"), id))

\* Attribute writes the application makes: an element is moved, a link is
\* reconnected to other elements of the graph.
Writes(g, id) ==
    IF id \notin Links
    THEN {[k \in {"x"} |-> x] : x \in Vals}
    ELSE {w \in {[k \in {"source", "target"} |-> IF k = "source" THEN st[1] ELSE st[2]] :
                    st \in Elements \X Elements} :
            w["source"] # w["target"] /\ Present(g, w["source"]) /\ Present(g, w["target"])}

\* cell.set(attrs) by the application
SetAttrs(ids) ==
    /\ \E id \in ids :
          /\ Present(graph, id)
          /\ \E w \in Writes(graph, id) :
                /\ \E k \in DOMAIN w : Get(graph[id])[k] # w[k]
                /\ Return(CellSet(Enter("set"), id, w, FALSE))

\* startBatch() without a label, or with one of labels
StartBatch(labels) ==
    /\ \E label \in {None} \cup {Some(l) : l \in labels} :
          Return(StartBatchOp(Enter("startBatch"), label))

StopBatch == Return(StopBatchOp(Enter("stopBatch")))

Undo == Return(UndoOp(Enter("undo")))

Redo == Return(RedoOp(Enter("redo")))

Clear == Return(ClearOp(Enter("clear")))

\* The whole diagram; undo, redo and clear are called between gestures,
\* when no batch is open.
Next ==
    \/ (MayMutate /\ AddCell(CellIds))
    \/ (MayMutate /\ RemoveCell(CellIds))
    \/ (MayMutate /\ SetAttrs(CellIds))
    \/ (batchDepth < MaxDepth /\ StartBatch({}))
    \/ StopBatch
    \/ (currentBatch = None /\ Undo)
    \/ (currentBatch = None /\ Redo)
    \/ (currentBatch = None /\ Clear)

Spec == Init /\ [][Next]_vars

\* One element; every public call at any time, also inside an open batch.
NextOpen ==
    \/ (MayMutate /\ AddCell({1}))
    \/ (MayMutate /\ RemoveCell({1}))
    \/ (MayMutate /\ SetAttrs({1}))
    \/ (batchDepth < MaxDepth /\ StartBatch({}))
    \/ StopBatch
    \/ Undo
    \/ Redo
    \/ Clear

SpecOpen == Init /\ [][NextOpen]_vars

\* The full stack: one element is added and then moved, commit after
\* commit, up to maxStackSize entries and beyond.  Undo and redo are called
\* once the two stacks together are within MaxDip entries of maxStackSize.
\* A batch is opened only within MaxDip entries of the full undo stack,
\* holds at most MaxCmds Commands, and only while no entry of several
\* Commands is on either stack; at most MaxDip commits follow such an entry.
Multi(stack) == \E i \in DOMAIN stack : Len(stack[i].commands) > 1
CapMayMutate ==
    /\ currentBatch = None \/ BufferLen < MaxCmds
    /\ \A i \in DOMAIN undoStack :
          Len(undoStack[i].commands) > 1 => i >= Len(undoStack) - MaxDip
CapMayBatch ==
    /\ batchDepth = 0
    /\ Len(undoStack) >= maxStackSize - MaxDip
    /\ ~Multi(undoStack)
    /\ ~Multi(redoStack)

CapMayReplay ==
    /\ currentBatch = None
    /\ Len(undoStack) + Len(redoStack) >= maxStackSize - MaxDip

NextCap ==
    \/ (CapMayMutate /\ AddCell({1}))
    \/ (CapMayMutate /\ SetAttrs({1}))
    \/ (CapMayBatch /\ StartBatch({}))
    \/ (batchDepth > 0 /\ StopBatch)
    \/ (CapMayReplay /\ Undo)
    \/ (CapMayReplay /\ Redo)
    \/ (currentBatch = None /\ Clear)

SpecCap == Init /\ [][NextCap]_vars

\* cmdManager.subscribe(cb) by the application: each subscription passes a
\* function created for it, so no callback is subscribed twice.
Subscribe(cbs) ==
    /\ \E cb \in cbs :
          /\ \A i \in DOMAIN listeners : listeners[i] # cb
          /\ Return(SubscribeOp(Enter("subscribe"), cb))

\* unsubscribe() by the application, for a callback that is subscribed
Unsubscribe(cbs) ==
    /\ \E cb \in cbs :
          /\ \E i \in DOMAIN listeners : listeners[i] = cb
          /\ Return(UnsubscribeOp(Enter("unsubscribe"), cb))

\* The whole diagram with subscribers coming and going between the calls;
\* batches are not nested.
NextSub ==
    \/ (MayMutate /\ AddCell(CellIds))
    \/ (MayMutate /\ RemoveCell(CellIds))
    \/ (MayMutate /\ SetAttrs(CellIds))
    \/ (batchDepth = 0 /\ StartBatch({}))
    \/ StopBatch
    \/ (currentBatch = None /\ Undo)
    \/ (currentBatch = None /\ Redo)
    \/ (currentBatch = None /\ Clear)
    \/ Subscribe(Callbacks)
    \/ Unsubscribe(Callbacks)

SpecSub == Init /\ [][NextSub]_vars

\* undo() / redo() while the application has a graph.once() listener that
\* calls undo() or redo() (hook) on the next graph event.
UndoHooked(hooks) ==
    /\ \E h \in hooks : Return(UndoHookedOp([Enter("undo") EXCEPT !.hook = h]))

RedoHooked(hooks) ==
    /\ \E h \in hooks : Return(RedoHookedOp([Enter("redo") EXCEPT !.hook = h]))

\* One element; a replay may be re-entered from a listener on the graph.
NextNested ==
    \/ (MayMutate /\ AddCell({1}))
    \/ (MayMutate /\ RemoveCell({1}))
    \/ (MayMutate /\ SetAttrs({1}))
    \/ (batchDepth < MaxDepth /\ StartBatch({}))
    \/ StopBatch
    \/ Undo
    \/ Redo
    \/ (canUndo /\ UndoHooked({"undo", "redo"}))
    \/ (canRedo /\ RedoHooked({"undo", "redo"}))

SpecNested == Init /\ [][NextNested]_vars

\* cmdManager.attachListeners() / detachListeners() by the application
AttachListeners == Return(AttachListenersOp(Enter("attachListeners")))

DetachListeners == Return(DetachListenersOp(Enter("detachListeners")))

\* Two elements; the handlers are detached and attached again between the
\* gestures, and the cells the application adds or removes meanwhile are
\* added or removed without a Command.
NextStale ==
    \/ ((MayMutate \/ ~attached) /\ AddCell(Elements))
    \/ ((MayMutate \/ ~attached) /\ RemoveCell(Elements))
    \/ (attached /\ MayMutate /\ SetAttrs(Elements))
    \/ (attached /\ batchDepth = 0 /\ StartBatch({}))
    \/ (batchDepth > 0 /\ StopBatch)
    \/ (attached /\ currentBatch = None /\ Undo)
    \/ (attached /\ currentBatch = None /\ Redo)
    \/ (attached /\ currentBatch = None /\ DetachListeners)
    \/ AttachListeners

SpecStale == Init /\ [][NextStale]_vars

\* A standard element and an element of a class outside the cellNamespace.
NextFault ==
    \/ (MayMutate /\ AddCell({1} \cup Custom))
    \/ (MayMutate /\ RemoveCell({1} \cup Custom))
    \/ (MayMutate /\ SetAttrs({1} \cup Custom))
    \/ (batchDepth < MaxDepth /\ StartBatch({}))
    \/ StopBatch
    \/ (currentBatch = None /\ Undo)
    \/ (currentBatch = None /\ Redo)

SpecFault == Init /\ [][NextFault]_vars

\* The same with a subscriber, between batches.
NextThrow ==
    \/ (MayMutate /\ AddCell({1} \cup Custom))
    \/ (MayMutate /\ RemoveCell(Custom))
    \/ (MayMutate /\ SetAttrs({1} \cup Custom))
    \/ (batchDepth = 0 /\ StartBatch({}))
    \/ StopBatch
    \/ (currentBatch = None /\ Undo)
    \/ (currentBatch = None /\ Redo)
    \/ Subscribe({1})

SpecThrow == Init /\ [][NextThrow]_vars

\* One element; batches are opened with and without a label, also nested,
\* and undo and redo are called between batches.
NextLabel ==
    \/ (MayMutate /\ AddCell({1}))
    \/ (MayMutate /\ SetAttrs({1}))
    \/ (batchDepth < MaxDepth /\ StartBatch(Labels))
    \/ StopBatch
    \/ (currentBatch = None /\ Undo)
    \/ (currentBatch = None /\ Redo)

SpecLabel == Init /\ [][NextLabel]_vars

\* DiagramProvider's effect is mounted when its callback is subscribed.
Mounted == \E i \in DOMAIN listeners : listeners[i] = ProviderCb

Mount ==
    /\ ~Mounted
    /\ Return(MountOp(Enter("mount")))

Unmount ==
    /\ Mounted
    /\ Return(UnmountOp(Enter("unmount")))

\* An element of a class outside the cellNamespace; the provider mounts
\* and unmounts at any time, and every call of the manager is made at any
\* time.
NextMirror ==
    \/ Mount
    \/ Unmount
    \/ (MayMutate /\ AddCell(Custom))
    \/ (MayMutate /\ RemoveCell(Custom))
    \/ (MayMutate /\ SetAttrs(Custom))
    \/ (batchDepth = 0 /\ StartBatch({}))
    \/ StopBatch
    \/ Undo
    \/ Redo
    \/ Clear

SpecMirror == Init /\ [][NextMirror]_vars

\* Schema-less attribute writes: any one key is given a value, also a key
\* the cell did not have, or is removed (cell.unset(key)), which leaves it
\* undefined.
Payloads == {[k \in {key} |-> v] : key \in Keys, v \in Vals \cup {Undef}}

\* cell.set(key, value) / cell.unset(key) by the application
SetPayload(ids) ==
    /\ \E id \in ids :
          /\ Present(graph, id)
          /\ \E w \in Payloads :
                /\ \E k \in DOMAIN w : Get(graph[id])[k] # w[k]
                /\ Return(CellSet(Enter("set"), id, w, FALSE))

\* One element whose attributes the application writes freely.
NextPayload ==
    \/ (MayMutate /\ AddCell({1}))
    \/ (MayMutate /\ RemoveCell({1}))
    \/ (MayMutate /\ SetPayload({1}))
    \/ (batchDepth < MaxDepth /\ StartBatch({}))
    \/ StopBatch
    \/ (currentBatch = None /\ Undo)
    \/ (currentBatch = None /\ Redo)

SpecPayload == Init /\ [][NextPayload]_vars

\* cmdManager.subscribe(cb) with a callback that may be subscribed already
SubscribeAgain(cbs) ==
    /\ Len(listeners) < MaxSubs
    /\ \E cb \in cbs : Return(SubscribeOp(Enter("subscribe"), cb))

\* One element; the application subscribes callbacks, also the same one
\* several times, and calls the functions subscribe() returned.
NextResub ==
    \/ (MayMutate /\ AddCell({1}))
    \/ (MayMutate /\ RemoveCell({1}))
    \/ (MayMutate /\ SetAttrs({1}))
    \/ Undo
    \/ Redo
    \/ Clear
    \/ SubscribeAgain(Callbacks)
    \/ Unsubscribe(Callbacks)

SpecResub == Init /\ [][NextResub]_vars

\* The clipboard holds copies of elements; a paste adds those that are not
\* in the graph, in the order of their ids.
RECURSIVE InOrder(_)
InOrder(ids) ==
    IF ids = {} THEN <<>>
    ELSE LET id == CHOOSE i \in ids : \A j \in ids : i <= j
         IN  <<id>> \o InOrder(ids \ {id})

Paste ==
    /\ \E ids \in SUBSET Elements, x \in Vals :
          /\ ids # {}
          /\ \A id \in ids : ~Present(graph, id)
          /\ Return(PasteOp(Enter("paste"),
                            [i \in 1..Cardinality(ids) |->
                                [id |-> InOrder(ids)[i], attrs |-> ElementAttrs(x)]]))

\* Cut of a selection of cells of the graph
Cut ==
    /\ \E ids \in SUBSET CellIds :
          /\ ids # {}
          /\ \A id \in ids : Present(graph, id)
          /\ Return(CutOp(Enter("cut"), ids))

\* The whole diagram with clipboard operations, which open a batch of the
\* graph only.
NextGraphBatch ==
    \/ (MayMutate /\ AddCell(CellIds))
    \/ (MayMutate /\ SetAttrs(CellIds))
    \/ (MayMutate /\ Paste)
    \/ (MayMutate /\ Cut)
    \/ (batchDepth = 0 /\ StartBatch({}))
    \/ (batchDepth > 0 /\ StopBatch)
    \/ (currentBatch = None /\ Undo)
    \/ (currentBatch = None /\ Redo)

SpecGraphBatch == Init /\ [][NextGraphBatch]_vars

\* Diagrams the application imports: two elements, alone, with a link from
\* 2 to 1, or with that link and a link back from 1 to 2.
Diagram(links) ==
    [id \in AllCells |->
        CASE id \in Elements -> Some(ElementAttrs(0))
          [] id = 3 /\ id \in links -> Some(LinkAttrs(2, 1))
          [] id = 5 /\ id \in links -> Some(LinkAttrs(1, 2))
          [] OTHER -> None]
Diagrams == {Diagram({}), Diagram({3}), Diagram({3, 5})}

\* onFileSelected: graph.fromJSON(graphData), which replaces the cells and
\* fires "reset" only, then commandManager.clear().
ImportOp(m, diagram) == ClearOp([m EXCEPT !.graph = diagram])

Import == \E diagram \in Diagrams : Return(ImportOp(Enter("import"), diagram))

\* Selections of one or two cells of the graph, in the order selected.
Selections(g) ==
    {<<a>> : a \in {id \in AllCells : Present(g, id)}}
        \cup {<<ab[1], ab[2]>> :
                 ab \in {c \in AllCells \X AllCells :
                            c[1] # c[2] /\ Present(g, c[1]) /\ Present(g, c[2])}}

\* deleteSelected() by the application, while clone() has fresh ids left
DeleteSelected ==
    /\ \E selected \in Selections(graph) :
          /\ Cardinality(BridgeIds \ UsedIds(Enter("deleteSelected"))) >= Len(selected)
          /\ Return(DeleteSelectedOp(Enter("deleteSelected"), selected))

\* An imported diagram whose cells are moved and deleted between gestures.
NextDelete ==
    \/ (currentBatch = None /\ Import)
    \/ (MayMutate /\ DeleteSelected)
    \/ (MayMutate /\ SetAttrs(Elements))
    \/ (currentBatch = None /\ Undo)
    \/ (currentBatch = None /\ Redo)

SpecDelete == Init /\ [][NextDelete]_vars

\* The application sets the resize handler up and tears it down (a React
\* effect and its cleanup).
SetupResizeRotate ==
    /\ ~resizeRotate.installed
    /\ Return(SetupResizeRotateOp(Enter("setupResizeRotate")))

TeardownResizeRotate ==
    /\ resizeRotate.installed
    /\ Return(TeardownResizeRotateOp(Enter("teardownResizeRotate")))

\* A click on an element of the graph, and on the toolbar's resize button.
ElementPointerClick(ids) ==
    /\ resizeRotate.installed
    /\ \E id \in ids :
          /\ Present(graph, id)
          /\ Return(OnElementPointerClick(Enter("pointerclick"), id))

ToolbarResize ==
    /\ resizeRotate.installed
    /\ resizeRotate.activeElement # None
    /\ Return(HandleToolbarResize(Enter("toolbarResize")))

\* A mouse button is pressed on a resize handle that is shown.
OverlayMouseDown ==
    /\ resizeRotate.installed
    /\ resizeRotate.overlay
    /\ resizeRotate.buttons < MaxButtons
    /\ Return(OnOverlayMouseDown(
            [Enter("mousedown") EXCEPT !.resizeRotate.buttons = @ + 1]))

\* The mouse moves over the document.
MouseMove ==
    /\ resizeRotate.installed
    /\ \E x \in Vals : Return(OnMouseMove(Enter("mousemove"), x))

\* A mouse button that is held is released; the document's mouseup reaches
\* the handler when its listeners are installed.
MouseUp ==
    /\ resizeRotate.buttons > 0
    /\ LET m == [Enter("mouseup") EXCEPT !.resizeRotate.buttons = @ - 1]
       IN  Return(IF resizeRotate.installed THEN OnMouseUp(m) ELSE m)

\* A click on Delete in the mini-toolbar of the active element, and on
\* Delete in the context menu of a cell.
ToolbarDelete ==
    /\ resizeRotate.installed
    /\ resizeRotate.activeElement # None
    /\ Return(HandleToolbarDelete(Enter("toolbarDelete")))

ContextDelete ==
    /\ \E id \in AllCells :
          /\ Present(graph, id)
          /\ Return(HandleDelete(Enter("contextDelete"), id))

\* An imported diagram whose cells are deleted from the context menu and
\* from the mini-toolbar, with undo and redo in between.
NextClickDelete ==
    \/ Import
    \/ SetupResizeRotate
    \/ ElementPointerClick(Elements)
    \/ (MayMutate /\ ToolbarDelete)
    \/ (MayMutate /\ ContextDelete)
    \/ Undo
    \/ Redo

SpecClickDelete == Init /\ [][NextClickDelete]_vars

\* One element that is resized by its handles; only the gesture opens a
\* batch.
NextResize ==
    \/ (MayMutate /\ AddCell({1}))
    \/ SetupResizeRotate
    \/ TeardownResizeRotate
    \/ ElementPointerClick({1})
    \/ ToolbarResize
    \/ (batchDepth < MaxDepth /\ OverlayMouseDown)
    \/ (MayMutate /\ MouseMove)
    \/ MouseUp
    \/ (currentBatch = None /\ Undo)
    \/ (currentBatch = None /\ Redo)

SpecResize == Init /\ [][NextResize]_vars

\* selectAll(): every element of the graph is selected.
SelectAll ==
    Return([Enter("selectAll") EXCEPT
                !.multiMove.selected = {id \in Elements : Present(graph, id)}])

PointersDown == multiMove.pointers[1] + multiMove.pointers[2]

\* A pointer (mouse button or finger) goes down on an element of the graph.
PointerDown ==
    /\ PointersDown < MaxButtons
    /\ \E id \in Elements :
          /\ Present(graph, id)
          /\ Return(OnPointerDown(
                [Enter("pointerdown") EXCEPT !.multiMove.pointers[id] = @ + 1], id))

\* A pointer that is down on an element moves: the paper moves the element,
\* then fires "element:pointermove".  The elements stay within the
\* positions explored.
PointerMove ==
    /\ \E id \in Elements, x \in Vals :
          /\ multiMove.pointers[id] > 0
          /\ Present(graph, id)
          /\ Get(graph[id])["x"] # x
          /\ \A o \in multiMove.selected \ {id} :
                Present(graph, o)
                    => Get(graph[o])["x"] + (x - Get(graph[id])["x"]) \in Vals
          /\ Return(OnPointerMove(
                CellSet(Enter("pointermove"), id, [k \in {"x"} |-> x], FALSE), id))

\* A pointer that is down on an element is released.
PointerUp ==
    /\ \E id \in Elements :
          /\ multiMove.pointers[id] > 0
          /\ Return(OnPointerUp(
                [Enter("pointerup") EXCEPT !.multiMove.pointers[id] = @ - 1], id))

\* An imported diagram whose elements are selected and dragged together;
\* only the gesture opens a batch.
NextMultiMove ==
    \/ (currentBatch = None /\ Import)
    \/ SelectAll
    \/ (batchDepth < MaxDepth /\ PointerDown)
    \/ (MayMutate /\ PointerMove)
    \/ PointerUp
    \/ (currentBatch = None /\ Undo)
    \/ (currentBatch = None /\ Redo)

SpecMultiMove == Init /\ [][NextMultiMove]_vars

\* A diagram of two elements and a link with the application's router.
RoutedDiagram ==
    [id \in AllCells |->
        CASE id \in Elements -> Some(ElementAttrs(0))
          [] id = 3 -> Some([LinkAttrs(2, 1) EXCEPT !["router"] = RouterDefault])
          [] OTHER -> None]

ImportRouted ==
    /\ graph = EmptyGraph
    /\ Return(ImportOp(Enter("import"), RoutedDiagram))

\* Canvas mounts: applyRoutingListeners(newPaper, graph)
ApplyRoutingListeners ==
    /\ ~routing.applied
    /\ Return(ApplyRoutingListenersOp(Enter("applyRoutingListeners")))

\* 50 ms after the last "change:position" the timer calls the reroute.
TimerFires ==
    /\ routing.timer
    /\ Return(DebouncedReroute(Enter("reroute")))

\* An imported diagram with routing listeners: elements are moved, in and
\* out of a batch, undo and redo are called between batches, and the
\* debounce timer fires at any later time.
NextReroute ==
    \/ ImportRouted
    \/ ApplyRoutingListeners
    \/ (MayMutate /\ SetAttrs(Elements))
    \/ (batchDepth = 0 /\ StartBatch({}))
    \/ (batchDepth > 0 /\ StopBatch)
    \/ (currentBatch = None /\ Undo)
    \/ (currentBatch = None /\ Redo)
    \/ TimerFires

SpecReroute == Init /\ [][NextReroute]_vars

\* cell.set(attrs, { dry: true }) by the application
SetAttrsDry(ids) ==
    /\ \E id \in ids :
          /\ Present(graph, id)
          /\ \E w \in Writes(graph, id) :
                /\ \E k \in DOMAIN w : Get(graph[id])[k] # w[k]
                /\ Return(CellSet(Enter("setDry"), id, w, TRUE))

\* A "change" event with no changed key, for a cell of the graph
ChangeEmpty(ids) ==
    /\ \E id \in ids :
          /\ Present(graph, id)
          /\ Return(CellChangeEmpty(Enter("changeEmpty"), id))

\* Two elements and subscribers; changes are recorded, dry, or empty, in and
\* out of a batch, with undo and redo in between.
NextDry ==
    \/ (MayMutate /\ AddCell(Elements))
    \/ (MayMutate /\ SetAttrs(Elements))
    \/ SetAttrsDry(Elements)
    \/ ChangeEmpty(Elements)
    \/ (batchDepth = 0 /\ StartBatch({}))
    \/ StopBatch
    \/ (currentBatch = None /\ Undo)
    \/ (currentBatch = None /\ Redo)
    \/ Subscribe(Callbacks)
    \/ Unsubscribe(Callbacks)

SpecDry == Init /\ [][NextDry]_vars

\* Two elements; attachListeners() and detachListeners() are called at any
\* time and any number of times (effect, cleanup and effect again), and the
\* application changes the graph in between.
NextAttach ==
    \/ ((MayMutate \/ ~attached) /\ AddCell(Elements))
    \/ ((MayMutate \/ ~attached) /\ RemoveCell(Elements))
    \/ ((MayMutate \/ ~attached) /\ SetAttrs(Elements))
    \/ (batchDepth = 0 /\ StartBatch({}))
    \/ (batchDepth > 0 /\ StopBatch)
    \/ AttachListeners
    \/ DetachListeners

SpecAttach == Init /\ [][NextAttach]_vars

-----------------------------------------------------------------------------
(* Properties.                                                             *)

\* C1 (round trip): with no batch open and every graph change recorded, an
\* effective undo() leaves the graph as it was before the oldest batch now
\* on the redo stack was recorded; after N recorded mutations and N undo()
\* calls that is the graph before the first of the N.
RoundTrip ==
    (/\ lastOp = "undo"
     /\ before.undo > 0
     /\ clean
     /\ currentBatch = None)
        => graph = Last(redoSnap).pre

\* Two unbatched mutations were undone one after the other, back to the
\* graph before the first.
RoundTripWitness ==
    /\ lastOp = "undo"
    /\ before.undo = 1
    /\ clean
    /\ currentBatch = None
    /\ Len(redoStack) = 2
    /\ \A i \in DOMAIN redoStack : Len(redoStack[i].commands) = 1
    /\ graph = Last(redoSnap).pre
    /\ graph # redoSnap[1].post
    /\ graph # redoSnap[1].pre

\* C2 (no self-recording): an undo() or redo() records no Command: the
\* recorder is never entered past its isExecuting check, the two stacks
\* together hold the same number of Commands as before, and an open buffer
\* is left as it was.
NoSelfRecording ==
    [][lastOp' \in {"undo", "redo"} =>
          /\ recorded' = 0
          /\ CountCmds(undoStack') + CountCmds(redoStack')
                = CountCmds(undoStack) + CountCmds(redoStack)
          /\ currentBatch' = currentBatch]_vars

\* An undo() inside an open batch with a buffered Command removed the cell
\* an "add" Command had added.
NoSelfRecordingWitness ==
    /\ lastOp = "undo"
    /\ before.undo > 0
    /\ currentBatch # None
    /\ BufferLen > 0
    /\ Last(redoStack).commands[1].type = "add"
    /\ ~Present(graph, 1)

\* C3 (batch atomicity): one undo() of a batch of several Commands leaves
\* the graph as it was at the outermost startBatch(), and one redo() of it
\* leaves the graph as it was at the outermost stopBatch().
BatchAtomicity ==
    /\ (/\ lastOp = "undo"
        /\ before.undo > 0
        /\ clean
        /\ currentBatch = None
        /\ Len(Last(redoStack).commands) > 1)
           => graph = Last(redoSnap).pre
    /\ (/\ lastOp = "redo"
        /\ before.redo > 0
        /\ clean
        /\ currentBatch = None
        /\ Len(Last(undoStack).commands) > 1)
           => graph = Last(undoSnap).post

\* Element 1 was created at x = 0 and moved to x = 1 inside one batch, undone
\* and redone: x is 1 again.
BatchAtomicityWitness ==
    /\ lastOp = "redo"
    /\ before.redo > 0
    /\ clean
    /\ undoStack # <<>>
    /\ Len(Last(undoStack).commands) = 2
    /\ Last(undoStack).commands[1].type = "add"
    /\ Last(undoStack).commands[1].cellId = 1
    /\ Get(Last(undoStack).commands[1].cellJSON).attrs["x"] = 0
    /\ Last(undoStack).commands[2].type = "change"
    /\ Last(undoStack).commands[2].cellId = 1
    /\ ~Present(Last(undoSnap).pre, 1)
    /\ Present(graph, 1)
    /\ Get(graph[1])["x"] = 1

\* A mutation outside any batch recorded one Command; the outermost
\* stopBatch() closed a buffer holding a Command.
UnbatchedCommit ==
    lastOp \in {"add", "remove", "set"} /\ before.buffer = -1 /\ recorded > 0
BatchCommit ==
    lastOp = "stopBatch" /\ before.depth = 1 /\ before.buffer > 0

\* C4 (redo invalidation): when the redo stack holds an undone batch, an
\* unbatched recorded mutation, or the outermost stopBatch() of a batch that
\* holds a Command, leaves the redo stack empty: canRedo() is false.
RedoInvalidation ==
    (before.redo > 0 /\ (UnbatchedCommit \/ BatchCommit)) => ~canRedo

\* A batch holding a Command was closed while an undone batch was on the redo
\* stack.
RedoInvalidationWitness ==
    /\ before.redo > 0
    /\ BatchCommit
    /\ ~canRedo
    /\ canUndo

\* C5 (cap): the undo stack never holds more than maxStackSize batches.
UndoStackBound == Len(undoStack) <= maxStackSize

\* The undo stack is full after a commit that shifted the oldest batch out.
UndoStackBoundWitness ==
    /\ Len(undoStack) = maxStackSize
    /\ evicted # None
    /\ before.undo = maxStackSize
    /\ (UnbatchedCommit \/ BatchCommit)

\* C6 (FIFO eviction): a commit onto a full undo stack drops exactly the
\* oldest batch and keeps the others in order under the new one, so undo is
\* still possible; and once batches were shifted out, undoing everything
\* leaves the graph as it was after the batch last shifted out, not as it
\* was before it.
FifoEviction ==
    [][/\ (/\ Len(undoStack) = maxStackSize
           /\ (UnbatchedCommit \/ BatchCommit)')
              => /\ Len(undoStack') = maxStackSize
                 /\ SubSeq(undoStack', 1, maxStackSize - 1) = Tail(undoStack)
                 /\ canUndo'
       /\ (/\ lastOp' = "undo"
           /\ clean'
           /\ evicted' # None
           /\ undoStack' = <<>>)
              => graph' = Get(evicted')]_vars

\* After maxStackSize + 1 commits, the first of which added element 1,
\* maxStackSize undo() calls emptied the undo stack and element 1 is still
\* in the graph.
FifoEvictionWitness ==
    /\ lastOp = "undo"
    /\ clean
    /\ evicted # None
    /\ undoStack = <<>>
    /\ Len(redoStack) = maxStackSize
    /\ graph = Get(evicted)
    /\ Present(graph, 1)

\* The Commands of batch b are successive changes of one cell's same keys.
SameAttribute(b) ==
    /\ Len(b.commands) > 1
    /\ \A i \in DOMAIN b.commands :
          /\ b.commands[i].type = "change"
          /\ b.commands[i].cellId = b.commands[1].cellId
          /\ DOMAIN Get(b.commands[i].previousState)
                = DOMAIN Get(b.commands[1].previousState)

\* C7 (replay order): after undo() of a batch of successive changes of one
\* attribute the attribute has the value from before the first change, and
\* after redo() of it the value after the last change.
ReplayOrder ==
    /\ (/\ lastOp = "undo"
        /\ before.undo > 0
        /\ SameAttribute(Last(redoStack))
        /\ Present(graph, Last(redoStack).commands[1].cellId))
           => LET b == Last(redoStack)
                  first == Get(b.commands[1].previousState)
              IN  \A k \in DOMAIN first :
                     Get(graph[b.commands[1].cellId])[k] = first[k]
    /\ (/\ lastOp = "redo"
        /\ before.redo > 0
        /\ SameAttribute(Last(undoStack))
        /\ Present(graph, Last(undoStack).commands[1].cellId))
           => LET b == Last(undoStack)
                  last == Get(Last(b.commands).newState)
              IN  \A k \in DOMAIN last :
                     Get(graph[b.commands[1].cellId])[k] = last[k]

\* A batch moved element 1 from x = 0 to 1 and back to 0; it was undone and x
\* is 0, the value before the first move, not 1, the value before the last.
ReplayOrderWitness ==
    /\ lastOp = "undo"
    /\ before.undo > 0
    /\ SameAttribute(Last(redoStack))
    /\ Last(redoStack).commands[1].cellId = 1
    /\ Get(Last(redoStack).commands[1].previousState)["x"] = 0
    /\ Get(Last(redoStack).commands[2].previousState)["x"] = 1
    /\ Present(graph, 1)
    /\ Get(graph[1])["x"] = 0

\* s is t with Commands appended.
IsPrefix(s, t) == Len(s) <= Len(t) /\ SubSeq(t, 1, Len(s)) = s

\* C8 (nested batching): while a batch is open, a mutation, a startBatch()
\* and an inner stopBatch() push nothing on the undo stack and keep the
\* buffer, to which a mutation appends what it records; the outermost
\* stopBatch() of a buffer holding Commands pushes exactly one batch, whose
\* Commands are the buffer in its order.
NestedBatching ==
    [][/\ (/\ batchDepth > 0
           /\ lastOp' \in {"add", "remove", "set", "startBatch", "stopBatch"}
           /\ ~(lastOp' = "stopBatch" /\ batchDepth = 1))
              => /\ undoStack' = undoStack
                 /\ currentBatch' # None
                 /\ IsPrefix(Get(currentBatch), Get(currentBatch'))
                 /\ Len(Get(currentBatch')) = Len(Get(currentBatch)) + recorded'
       /\ (/\ batchDepth = 1
           /\ lastOp' = "stopBatch"
           /\ BufferLen > 0
           /\ Len(undoStack) < maxStackSize)
              => /\ Len(undoStack') = Len(undoStack) + 1
                 /\ Front(undoStack') = undoStack
                 /\ Last(undoStack').commands = Get(currentBatch)]_vars

\* An inner stopBatch() returned at depth 1 with Commands in the buffer and
\* nothing pushed.
NestedBatchingWitness ==
    /\ lastOp = "stopBatch"
    /\ before.depth = 2
    /\ batchDepth = 1
    /\ before.buffer > 0
    /\ BufferLen = before.buffer
    /\ Len(undoStack) = before.undo

\* C9 (routing): a mutation recorded with no batch open puts each Command
\* it records on top of the undo stack as a batch of that one Command; a
\* mutation recorded while a batch is open appends to the buffer and
\* changes neither stack.
CommandRouting ==
    [][lastOp' \in {"add", "remove", "set"} =>
          IF currentBatch = None
          THEN /\ currentBatch' = None
               /\ Len(undoStack) + recorded' <= maxStackSize
                     => /\ Len(undoStack') = Len(undoStack) + recorded'
                        /\ IsPrefix(undoStack, undoStack')
               /\ \A i \in DOMAIN undoStack' :
                     i > Len(undoStack') - recorded'
                        => Len(undoStack'[i].commands) = 1
               /\ recorded' > 0 =>
                     Last(undoStack').commands[1].type
                        = IF lastOp' = "set" THEN "change" ELSE lastOp'
          ELSE /\ undoStack' = undoStack
               /\ redoStack' = redoStack
               /\ Len(Get(currentBatch')) = Len(Get(currentBatch)) + recorded'
               /\ IsPrefix(Get(currentBatch), Get(currentBatch'))]_vars

\* Removing an element with a link attached, with no batch open, committed
\* two singleton batches.
CommandRoutingWitness ==
    /\ lastOp = "remove"
    /\ before.buffer = -1
    /\ recorded = 2
    /\ Len(undoStack) = before.undo + 2
    /\ Len(Last(undoStack).commands) = 1

NonEmptyBatches ==
    /\ \A i \in DOMAIN undoStack : Len(undoStack[i].commands) > 0
    /\ \A i \in DOMAIN redoStack : Len(redoStack[i].commands) > 0

\* C10 (no empty batch): every batch on either stack holds a Command, and
\* the outermost stopBatch() of an empty buffer leaves both stacks as they
\* were.
NoEmptyBatch ==
    [][/\ NonEmptyBatches'
       /\ (/\ lastOp' = "stopBatch"
           /\ batchDepth = 1
           /\ currentBatch = Some(<<>>))
              => /\ undoStack' = undoStack
                 /\ redoStack' = redoStack]_vars

\* An empty batch was closed while the redo stack held an undone batch, which
\* is still there.
NoEmptyBatchWitness ==
    /\ lastOp = "stopBatch"
    /\ before.depth = 1
    /\ before.buffer = 0
    /\ before.redo > 0
    /\ Len(redoStack) = before.redo
    /\ Len(undoStack) = before.undo
    /\ currentBatch = None

\* C11 (idempotent boundary): undo() with an empty undo stack, and redo()
\* with an empty redo stack, return normally, leave the graph, both stacks,
\* the batch buffer, the batch depth and isExecuting as they were, and call
\* no subscriber.
IdempotentBoundary ==
    [][(\/ (lastOp' = "undo" /\ ~canUndo)
        \/ (lastOp' = "redo" /\ ~canRedo))
          => /\ graph' = graph
             /\ undoStack' = undoStack
             /\ redoStack' = redoStack
             /\ currentBatch' = currentBatch
             /\ batchDepth' = batchDepth
             /\ isExecuting' = isExecuting
             /\ notified' = 0
             /\ notes' = <<>>
             /\ ~thrown']_vars

\* undo() was called on an empty undo stack while the graph held a cell, a
\* batch was open with a Command in its buffer and the redo stack held an
\* undone batch.
IdempotentBoundaryWitness ==
    /\ lastOp = "undo"
    /\ before.undo = 0
    /\ before.redo > 0
    /\ Len(redoStack) = before.redo
    /\ BufferLen > 0
    /\ Present(graph, 1)
    /\ notified = 0
    /\ ~thrown

\* The batches in the order they were committed: the undo stack from its
\* bottom, then the redo stack from its top.
Reverse(seq) == [i \in 1..Len(seq) |-> seq[Len(seq) + 1 - i]]
Timeline == undoStack \o Reverse(redoStack)

\* C12 (exclusive ownership): an effective undo() takes the top batch off the
\* undo stack and puts that batch on top of the redo stack, an effective
\* redo() does the converse, and every other entry of either stack stays in
\* its place; so the batches of the two stacks, read in commit order, are
\* the same before and after: none is lost, duplicated or on both stacks.
BatchOwnership ==
    [][/\ (lastOp' = "undo" /\ canUndo)
              => /\ undoStack' = Front(undoStack)
                 /\ redoStack' = Append(redoStack, Last(undoStack))
       /\ (lastOp' = "redo" /\ canRedo)
              => /\ redoStack' = Front(redoStack)
                 /\ undoStack' = Append(undoStack, Last(redoStack))
       /\ lastOp' \in {"undo", "redo"}
              => /\ Timeline' = Timeline
                 /\ Len(undoStack') + Len(redoStack')
                       = Len(undoStack) + Len(redoStack)]_vars

\* Of two undone batches redo() moved one back: the other is still on the
\* redo stack and the undo stack holds the one moved.
BatchOwnershipWitness ==
    /\ lastOp = "redo"
    /\ before.redo = 2
    /\ before.undo = 0
    /\ Len(redoStack) = 1
    /\ Len(undoStack) = 1
    /\ undoStack[1] # redoStack[1]

\* The notify() calls of the step just taken each ran every subscription
\* once, in order, with isExecuting false, and the last of them showed the
\* stacks as the step left them.
NotifiedStable ==
    /\ notes' # <<>>
    /\ \A i \in DOMAIN notes' :
          /\ notes'[i].called = listeners
          /\ ~notes'[i].isExecuting
    /\ Last(notes').undoStack = undoStack'
    /\ Last(notes').redoStack = redoStack'

\* C13 (notification): an effective undo(), an effective redo(), a clear()
\* and the stopBatch() that commits a batch each call notify() exactly once,
\* and an unbatched mutation once per Command it commits; every such
\* notify() runs each subscription once, after isExecuting is false again
\* and with both stacks as the operation leaves them (for the i-th of
\* several commits: as that commit leaves them).
StableNotification ==
    [][/\ (\/ (lastOp' = "undo" /\ canUndo)
           \/ (lastOp' = "redo" /\ canRedo)
           \/ lastOp' = "clear"
           \/ BatchCommit')
              => /\ Len(notes') = 1
                 /\ NotifiedStable
       /\ UnbatchedCommit'
              => /\ Len(notes') = recorded'
                 /\ NotifiedStable
                 /\ \A i \in DOMAIN notes' :
                       /\ notes'[i].redoStack = <<>>
                       /\ IsPrefix(notes'[i].undoStack, undoStack')
                       /\ Len(notes'[i].undoStack)
                             = Len(undoStack') - (recorded' - i)]_vars

\* undo() of a batch ran two subscriptions, once each, and they saw the batch
\* on the redo stack and no replay in flight.
StableNotificationWitness ==
    /\ lastOp = "undo"
    /\ before.undo > 0
    /\ Len(listeners) = 2
    /\ Len(notes) = 1
    /\ notes[1].called = listeners
    /\ notes[1].redoStack = redoStack
    /\ Len(notes[1].redoStack) = before.redo + 1
    /\ ~notes[1].isExecuting

\* C14 (replays never interleave): an undo() or redo() called while a replay
\* is in flight pops no batch, and the replay in flight reverses or applies
\* each of its Commands with isExecuting still set.
NoInterleaving ==
    lastOp \in {"undo", "redo"}
        => /\ nested.pops = 0
           /\ nested.unguarded = 0

\* The Commands of batch b are about pairwise different cells.
DistinctCells(b) ==
    \A i, j \in DOMAIN b.commands :
        i # j => b.commands[i].cellId # b.commands[j].cellId
Targets(b) == {b.commands[i].cellId : i \in DOMAIN b.commands}

\* Graph g2 is graph g1 with the attributes in state written to cell id, or
\* without the cell in both when g1 does not hold it.
WrittenOrSkipped(g1, g2, id, state) ==
    IF Present(g1, id)
    THEN /\ Present(g2, id)
         /\ \A k \in Keys :
               Get(g2[id])[k] = IF k \in DOMAIN state THEN state[k]
                                ELSE Get(g1[id])[k]
    ELSE ~Present(g2, id)

\* C15 (stale reference recovery): an effective undo() or redo() returns
\* normally and moves its batch to the other stack also when the cell of one
\* of its Commands is no longer in the graph; cells the batch is not about
\* are left alone, and when the Commands are about different cells each has
\* its effect on its own cell, except that a change, or the removal of a
\* cell, that finds no cell is skipped.
StaleRecovery ==
    [][/\ (lastOp' = "undo" /\ canUndo)
              => LET b == Last(undoStack)
                 IN  /\ ~thrown'
                     /\ undoStack' = Front(undoStack)
                     /\ redoStack' = Append(redoStack, b)
                     /\ \A id \in AllCells \ Targets(b) : graph'[id] = graph[id]
                     /\ DistinctCells(b) => \A i \in DOMAIN b.commands :
                           LET c == b.commands[i]
                           IN  CASE c.type = "add" -> ~Present(graph', c.cellId)
                                 [] c.type = "remove" ->
                                       graph'[c.cellId] =
                                          IF Present(graph, c.cellId)
                                          THEN graph[c.cellId]
                                          ELSE Some(Get(c.cellJSON).attrs)
                                 [] c.type = "change" ->
                                       WrittenOrSkipped(graph, graph', c.cellId,
                                                        Get(c.previousState))
       /\ (lastOp' = "redo" /\ canRedo)
              => LET b == Last(redoStack)
                 IN  /\ ~thrown'
                     /\ redoStack' = Front(redoStack)
                     /\ undoStack' = Append(undoStack, b)
                     /\ \A id \in AllCells \ Targets(b) : graph'[id] = graph[id]
                     /\ DistinctCells(b) => \A i \in DOMAIN b.commands :
                           LET c == b.commands[i]
                           IN  CASE c.type = "remove" -> ~Present(graph', c.cellId)
                                 [] c.type = "add" ->
                                       graph'[c.cellId] =
                                          IF Present(graph, c.cellId)
                                          THEN graph[c.cellId]
                                          ELSE Some(Get(c.cellJSON).attrs)
                                 [] c.type = "change" ->
                                       WrittenOrSkipped(graph, graph', c.cellId,
                                                        Get(c.newState))]_vars

\* A batch moved two elements; one of them was then removed while the
\* handlers were detached.  undo() of the batch skipped the change of the
\* missing element, moved the other element back and put the batch on the
\* redo stack.
StaleRecoveryWitness ==
    /\ lastOp = "undo"
    /\ before.undo > 0
    /\ ~thrown
    /\ Len(redoStack) = before.redo + 1
    /\ LET b == Last(redoStack)
       IN  /\ Len(b.commands) = 2
           /\ DistinctCells(b)
           /\ b.commands[1].type = "change"
           /\ b.commands[2].type = "change"
           /\ ~Present(graph, b.commands[2].cellId)
           /\ Present(graph, b.commands[1].cellId)
           /\ Get(graph[b.commands[1].cellId])["x"]
                 = Get(b.commands[1].previousState)["x"]

\* C16 (unmatched stopBatch): the batch depth is never negative; a
\* stopBatch() at depth 0 leaves every field of the manager and the graph as
\* they were, calls no subscriber and does not throw; and the startBatch()
\* that follows it opens a batch at depth 1 with an empty buffer, as it does
\* after any other call.
UnmatchedStopBatch ==
    [][/\ batchDepth' >= 0
       /\ (lastOp' = "stopBatch" /\ batchDepth = 0)
              => /\ batchDepth' = 0
                 /\ currentBatch' = currentBatch
                 /\ currentBatch' = None
                 /\ pendingLabel' = pendingLabel
                 /\ undoStack' = undoStack
                 /\ redoStack' = redoStack
                 /\ graph' = graph
                 /\ isExecuting' = isExecuting
                 /\ notified' = 0
                 /\ ~thrown'
       /\ (lastOp = "stopBatch" /\ before.depth = 0 /\ lastOp' = "startBatch")
              => /\ batchDepth' = 1
                 /\ currentBatch' = Some(<<>>)
                 /\ undoStack' = undoStack
                 /\ redoStack' = redoStack]_vars

\* stopBatch() was called with no batch open while both stacks held a batch:
\* nothing was notified and both stacks are as they were.
UnmatchedStopBatchWitness ==
    /\ lastOp = "stopBatch"
    /\ before.depth = 0
    /\ before.buffer = -1
    /\ batchDepth = 0
    /\ currentBatch = None
    /\ before.undo > 0
    /\ before.redo > 0
    /\ Len(undoStack) = before.undo
    /\ Len(redoStack) = before.redo
    /\ notified = 0

\* C17 (clear): clear() leaves both stacks empty, so that canUndo() and
\* canRedo() are false, and leaves the graph as it was.
ClearEmptiesStacks ==
    [][lastOp' = "clear"
          => /\ undoStack' = <<>>
             /\ redoStack' = <<>>
             /\ ~canUndo'
             /\ ~canRedo'
             /\ graph' = graph
             /\ ~thrown']_vars

\* clear() was called with a batch on each stack and a cell in the graph.
ClearEmptiesStacksWitness ==
    /\ lastOp = "clear"
    /\ before.undo > 0
    /\ before.redo > 0
    /\ ~canUndo
    /\ ~canRedo
    /\ Present(graph, 1)

\* C18 (no leak across clear): the batch an effective undo() or redo()
\* replays holds no Command that was recorded before the latest clear().
NoLeakAcrossClear ==
    /\ (lastOp = "undo" /\ before.undo > 0) => Last(redoSnap).old = 0
    /\ (lastOp = "redo" /\ before.redo > 0) => Last(undoSnap).old = 0

\* C19 (no exception leaves a replay): undo() and redo() return normally,
\* with isExecuting false and, when they popped a batch, with that batch on
\* one of the two stacks.
ReplayNeverThrows ==
    lastOp \in {"undo", "redo"}
        => /\ ~thrown
           /\ ~isExecuting
           /\ Len(undoStack) + Len(redoStack) = before.undo + before.redo

\* The Commands held by the two stacks and the open buffer.
CommandsOf(stack) ==
    UNION {{stack[i].commands[j] : j \in DOMAIN stack[i].commands} :
              i \in DOMAIN stack}
AllCommands ==
    CommandsOf(undoStack) \cup CommandsOf(redoStack)
        \cup (IF currentBatch = None THEN {}
              ELSE {Get(currentBatch)[j] : j \in DOMAIN Get(currentBatch)})

\* The Command the step just taken recorded last.
Newest ==
    IF currentBatch' = None THEN Last(undoStack').commands[1]
    ELSE Last(Get(currentBatch'))

\* C20 (delta snapshots): the previous-state and new-state snapshots of every
\* change Command have the same keys; when cell.set() is recorded, these are
\* exactly the keys whose value the call changed, with the values from
\* before and after the call, and not every attribute of the cell.
DeltaSnapshots ==
    [][/\ \A c \in AllCommands' :
             c.type = "change"
                => /\ c.previousState # None
                   /\ c.newState # None
                   /\ DOMAIN Get(c.previousState) = DOMAIN Get(c.newState)
       /\ (lastOp' = "set" /\ recorded' > 0)
              => LET c == Newest
                     old == Get(graph[c.cellId])
                     new == Get(graph'[c.cellId])
                     changedKeys == {k \in Keys : old[k] # new[k]}
                 IN  /\ recorded' = 1
                     /\ c.type = "change"
                     /\ DOMAIN Get(c.previousState) = changedKeys
                     /\ DOMAIN Get(c.newState) = changedKeys
                     /\ changedKeys # Keys
                     /\ \A k \in changedKeys :
                           /\ Get(c.previousState)[k] = old[k]
                           /\ Get(c.newState)[k] = new[k]]_vars

\* A link was reconnected between two elements inside a batch: the Command
\* in the buffer holds its source and target, before and after, and nothing
\* else.
DeltaSnapshotsWitness ==
    /\ lastOp = "set"
    /\ recorded = 1
    /\ currentBatch # None
    /\ BufferLen > 0
    /\ LET c == Last(Get(currentBatch))
       IN  /\ c.type = "change"
           /\ c.cellId \in Links
           /\ DOMAIN Get(c.previousState) = {"source", "target"}
           /\ DOMAIN Get(c.newState) = {"source", "target"}
           /\ Get(c.previousState)["source"] = Get(c.newState)["target"]
           /\ Get(graph[c.cellId])["source"] = Get(c.newState)["source"]

\* C21 (schema-less payloads): a cell.set() that changes a key, also one the
\* cell did not have before or does not have afterwards, returns normally
\* and is recorded as one change Command.
TolerantRecorder ==
    lastOp = "set" => (~thrown /\ recorded = 1)

\* Sequence seq without its i-th entry.
RemoveAt(seq, i) == SubSeq(seq, 1, i - 1) \o SubSeq(seq, i + 1, Len(seq))

\* C22 (unsubscribe): calling the function a subscribe(callback) returned
\* takes exactly one subscription off the list and leaves every other one,
\* also another subscription of the same callback, in place; and every
\* notify() calls each subscription on the list once.
ExactUnsubscribe ==
    [][/\ lastOp' = "unsubscribe"
              => \E i \in DOMAIN listeners : listeners' = RemoveAt(listeners, i)
       /\ \A n \in DOMAIN notes' : notes'[n].called = listeners']_vars

\* C23 (redo inverts undo): a redo() that directly follows an undo() that
\* popped a batch leaves the graph, the undo stack and the redo stack as
\* they were before that undo(); and after k such undo() calls the j-th of
\* the redo() calls that follow restores the state before the j-th last
\* undo(), so k of them restore the state before the first.
RedoInvertsUndo ==
    [][(lastOp' = "redo" /\ canRedo /\ prior # <<>>)
          => /\ lastOp \in {"undo", "redo"}
             /\ graph' = Last(prior).graph
             /\ undoStack' = Last(prior).undoStack
             /\ redoStack' = Last(prior).redoStack]_vars

\* An element was added and then moved; both were undone and the first
\* redo() put the element back where it was added: the state is the one
\* before the second undo(), and the state before the first is still to be
\* restored.
RedoInvertsUndoWitness ==
    /\ lastOp = "redo"
    /\ before.redo = 2
    /\ before.undo = 0
    /\ Len(prior) = 1
    /\ prior[1].redoStack = <<>>
    /\ Len(prior[1].undoStack) = 2
    /\ undoStack = <<prior[1].undoStack[1]>>
    /\ redoStack = <<prior[1].undoStack[2]>>
    /\ undoStack[1].commands[1].type = "add"
    /\ redoStack[1].commands[1].type = "change"
    /\ graph[undoStack[1].commands[1].cellId]
          = Some(Get(undoStack[1].commands[1].cellJSON).attrs)
    /\ graph # prior[1].graph

\* C24 (silent empty batch): the outermost stopBatch() of a batch whose
\* buffer holds no Command runs no subscriber.
SilentEmptyBatch ==
    (lastOp = "stopBatch" /\ before.depth = 1 /\ before.buffer = 0)
        => \A i \in DOMAIN notes : notes[i].called = <<>>

\* C25 (graph batches): what a paste or a cut records while the manager has
\* no batch open is one undo step: it is committed as one batch, and the
\* undo() that follows reverts every Command the operation recorded.
GraphBatchOneStep ==
    [][/\ (lastOp' \in {"paste", "cut"} /\ currentBatch = None /\ recorded' > 0)
              => /\ Len(undoStack') = Len(undoStack) + 1
                 /\ Len(Last(undoStack').commands) = recorded'
       /\ (/\ lastOp \in {"paste", "cut"}
           /\ before.buffer = -1
           /\ recorded > 0
           /\ lastOp' = "undo")
              => CountCmds(redoStack') = CountCmds(redoStack) + recorded]_vars

\* C26 (deleteSelected is one undo step): a deleteSelected() that records
\* Commands commits them all as one batch; undo() of that batch leaves the
\* graph as it was before the deleteSelected(), every removed cell back and
\* the bridging link gone, and redo() of it leaves the graph as the
\* deleteSelected() left it.
DeleteOneStep ==
    [][/\ (lastOp' = "deleteSelected" /\ recorded' > 0)
              => /\ Len(undoStack') = Len(undoStack) + 1
                 /\ Len(Last(undoStack').commands) = recorded'
                 /\ Last(undoStack').label = Some("delete")
                 /\ Last(undoSnap').pre = graph
                 /\ Last(undoSnap').post = graph'
       /\ (lastOp' = "undo" /\ canUndo /\ Last(undoStack).label = Some("delete"))
              => graph' = Last(undoSnap).pre
       /\ (lastOp' = "redo" /\ canRedo /\ Last(redoStack).label = Some("delete"))
              => graph' = Last(redoSnap).post]_vars

\* Element 1, with a link from 2 and a link to 2, was deleted: the batch
\* added the bridging link and removed the two links and the element.  It
\* was undone and redone: the element and its links are gone again and the
\* bridging link is back.
DeleteOneStepWitness ==
    /\ lastOp = "redo"
    /\ before.redo > 0
    /\ Last(undoStack).label = Some("delete")
    /\ Len(Last(undoStack).commands) = 4
    /\ Last(undoStack).commands[1].type = "add"
    /\ Last(undoStack).commands[1].cellId \in BridgeIds
    /\ Last(undoStack).commands[4].type = "remove"
    /\ Last(undoStack).commands[4].cellId = 1
    /\ Last(undoSnap).pre = Diagram({3, 5})
    /\ ~Present(graph, 1)
    /\ ~Present(graph, 3)
    /\ ~Present(graph, 5)
    /\ Present(graph, Last(undoStack).commands[1].cellId)
    /\ graph = Last(undoSnap).post

\* C27 (balanced resize gesture): whenever no mouse button is held down on
\* a handle, every startBatch() a mousedown issued has had its stopBatch():
\* the batch depth is 0 again and no batch is open.
ResizeBalanced ==
    resizeRotate.buttons = 0 => (batchDepth = 0 /\ currentBatch = None)

\* C28 (balanced multi-selection move): whenever no pointer is down on an
\* element, every startBatch('multi-move') has had its stopBatch(): the
\* batch depth is 0 and no batch is open.
MultiMoveBalanced ==
    PointersDown = 0 => (batchDepth = 0 /\ currentBatch = None)

\* C29 (idempotent attach): after any attachListeners() / detachListeners()
\* calls at most one set of handlers is registered on the graph, exactly
\* one when graphListeners is not empty and none when it is; so adding,
\* removing or changing one cell records exactly one Command when the
\* handlers are attached and none when they are detached.
IdempotentAttach ==
    [][/\ registered' = (IF attached' THEN 1 ELSE 0)
       /\ lastOp' = "attachListeners" => (attached' /\ registered' = 1)
       /\ lastOp' = "detachListeners" => (~attached' /\ registered' = 0)
       /\ lastOp' \in {"add", "remove", "set"}
              => recorded' = (IF attached THEN 1 ELSE 0)]_vars

\* attachListeners() was called while the handlers of an earlier call were
\* registered and a Command had been recorded: still one set of handlers.
IdempotentAttachWitness ==
    /\ lastOp = "attachListeners"
    /\ before.registered = 1
    /\ registered = 1
    /\ attached
    /\ Len(undoStack) = 1
    /\ Len(undoStack[1].commands) = 1

\* C30 (skipped change): a "change" event with opt.dry, or with no changed
\* key, records no Command, leaves the undo stack, the redo stack, the open
\* buffer and the batch depth as they were, and calls no subscriber.
SkippedChangeFrame ==
    [][lastOp' \in {"setDry", "changeEmpty"}
         => /\ recorded' = 0
            /\ undoStack' = undoStack
            /\ redoStack' = redoStack
            /\ currentBatch' = currentBatch
            /\ batchDepth' = batchDepth
            /\ pendingLabel' = pendingLabel
            /\ listeners' = listeners
            /\ notified' = 0
            /\ notes' = <<>>
            /\ ~thrown']_vars

\* A dry change of an element's x inside an open batch that holds a
\* Command, with an entry on the undo stack and a subscriber.
SkippedChangeFrameWitness ==
    /\ lastOp = "setDry"
    /\ attached
    /\ Len(undoStack) = 1
    /\ currentBatch # None
    /\ Len(Get(currentBatch)) = 1
    /\ listeners # <<>>
    /\ recorded = 0

Rerouted == {l \in AllLinks : Present(graph, l) /\ graph'[l] # graph[l]}

\* C32 (late reroute): the reroute the debounce timer calls runs with
\* isExecuting false, so each "change" it fires is recorded as one Command
\* with the router before and after.  With no batch open each is a new
\* singleton batch on the undo stack and the redo stack is emptied; with a
\* batch open each is appended to the buffer and the stacks stay.
LateRerouteRecorded ==
    [][lastOp' = "reroute"
         => /\ ~isExecuting
            /\ ~isExecuting'
            /\ recorded' = Cardinality(Rerouted)
            /\ IF currentBatch = None
               THEN /\ currentBatch' = None
                    /\ Len(undoStack') = Len(undoStack) + recorded'
                    /\ IsPrefix(undoStack, undoStack')
                    /\ recorded' > 0 => redoStack' = <<>>
                    /\ recorded' = 0 => redoStack' = redoStack
                    /\ \A i \in Len(undoStack) + 1 .. Len(undoStack') :
                          LET b == undoStack'[i].commands
                          IN  /\ Len(b) = 1
                              /\ b[1].type = "change"
                              /\ b[1].cellId \in Rerouted
                              /\ DOMAIN Get(b[1].newState) = {"router"}
                              /\ Get(b[1].previousState)["router"]
                                    = Get(graph[b[1].cellId])["router"]
                              /\ Get(b[1].newState)["router"]
                                    = Get(graph'[b[1].cellId])["router"]
               ELSE /\ undoStack' = undoStack
                    /\ redoStack' = redoStack
                    /\ currentBatch' # None
                    /\ IsPrefix(Get(currentBatch), Get(currentBatch'))
                    /\ Len(Get(currentBatch'))
                          = Len(Get(currentBatch)) + recorded']_vars

\* An element was moved and the link rerouted, both were undone, and the
\* timer the undo of the move started has fired with no batch open: the
\* router change is the only entry of the undo stack and the two undone
\* batches are gone from the redo stack.
LateRerouteRecordedWitness ==
    /\ lastOp = "reroute"
    /\ recorded = 1
    /\ before.redo = 2
    /\ before.undo = 0
    /\ before.buffer = -1
    /\ redoStack = <<>>
    /\ Len(undoStack) = 1
    /\ undoStack[1].commands[1].cellId = 3

\* C32 as stated: after an undo(), every change the late reroute makes is a
\* new singleton batch and the redo stack is empty after it.
LateRerouteSingleton ==
    [][(lastOp' = "reroute" /\ Rerouted # {} /\ canRedo)
         => /\ redoStack' = <<>>
            /\ Len(undoStack') = Len(undoStack) + Cardinality(Rerouted)
            /\ Len(Last(undoStack').commands) = 1]_vars

\* C33 (replay inside a batch): undo() and redo() called while a batch is
\* open move a batch between the stacks and leave the buffer, the batch
\* depth and the pending label as they were; the outermost stopBatch() then
\* commits the Commands of the buffer, all of them and in order, as one
\* batch on top of the undo stack.
ReplayInsideBatch ==
    [][/\ (lastOp' \in {"undo", "redo"} /\ currentBatch # None)
              => /\ currentBatch' = currentBatch
                 /\ batchDepth' = batchDepth
                 /\ pendingLabel' = pendingLabel
                 /\ recorded' = 0
                 /\ Len(undoStack') + Len(redoStack')
                       = Len(undoStack) + Len(redoStack)
                 /\ (lastOp' = "undo" /\ canUndo)
                       => /\ undoStack' = Front(undoStack)
                          /\ redoStack' = Append(redoStack, Last(undoStack))
                 /\ (lastOp' = "redo" /\ canRedo)
                       => /\ redoStack' = Front(redoStack)
                          /\ undoStack' = Append(undoStack, Last(redoStack))
       /\ (lastOp' = "stopBatch" /\ batchDepth = 1 /\ currentBatch # None
             /\ BufferLen > 0)
              => /\ undoStack' = Append(undoStack,
                                        [commands |-> Get(currentBatch),
                                         label |-> pendingLabel])
                 /\ currentBatch' = None
                 /\ batchDepth' = 0]_vars

\* undo() inside an open batch that holds a Command took the one committed
\* batch off the undo stack; the buffer still holds its Command.
ReplayInsideBatchWitness ==
    /\ lastOp = "undo"
    /\ before.undo = 1
    /\ before.buffer = 1
    /\ batchDepth = 1
    /\ currentBatch # None
    /\ Len(Get(currentBatch)) = 1
    /\ Len(redoStack) = 1
    /\ undoStack = <<>>

\* C34 (combined bound): the undo stack and the redo stack together never
\* hold more than maxStackSize batches.
CombinedBound == Len(undoStack) + Len(redoStack) <= maxStackSize

\* The full undo stack after one of its batches was undone and redone:
\* while it was undone the two stacks held maxStackSize batches together.
CombinedBoundWitness ==
    /\ lastOp = "redo"
    /\ before.redo = 2
    /\ before.undo = maxStackSize - 2
    /\ Len(undoStack) = maxStackSize - 1
    /\ Len(redoStack) = 1
    /\ evicted # None

\* C35 (flag cleared): whenever no undo() or redo() is running, isExecuting
\* is false, also after a replay that ended by an exception; and every
\* notify() of the call just returned ran with isExecuting false.
FlagCleared ==
    /\ ~isExecuting
    /\ \A i \in DOMAIN notes : ~notes[i].isExecuting

\* A replay threw (the cell of a class outside the cellNamespace could not
\* be added again): the flag is false and the one notify() of the call ran
\* a subscriber with the flag false.
FlagClearedWitness ==
    /\ lastOp \in {"undo", "redo"}
    /\ thrown
    /\ ~isExecuting
    /\ Len(notes) = 1
    /\ notes[1].called # <<>>
    /\ ~notes[1].isExecuting

\* C36 (UI mirror): while DiagramProvider's effect is mounted, the canUndo
\* and canRedo values it holds are canUndo() and canRedo() of the manager
\* after every call that returned, also one that ended by an exception.
MirrorConsistent ==
    Mounted => mirror = [canUndo |-> canUndo, canRedo |-> canRedo]

\* With the provider mounted, an undo() threw during its replay: the batch
\* is on neither stack, and the provider shows that nothing can be undone
\* or redone.
MirrorConsistentWitness ==
    /\ Mounted
    /\ lastOp = "undo"
    /\ thrown
    /\ before.undo = 1
    /\ ~canUndo
    /\ ~canRedo
    /\ mirror = [canUndo |-> FALSE, canRedo |-> FALSE]
    /\ Len(notes) = 1

\* C37 (delete is one step): a click on Delete in the context menu or in
\* the mini-toolbar that removes cells commits one batch holding the remove
\* of every cell that left the graph, so that one undo() brings the element
\* back together with its links.
ClickDeleteOneStep ==
    [][/\ (lastOp' \in {"contextDelete", "toolbarDelete"} /\ recorded' > 0)
              => /\ Len(undoStack') = Len(undoStack) + 1
                 /\ Len(Last(undoStack').commands) = recorded'
                 /\ Last(undoSnap').pre = graph
                 /\ Last(undoSnap').post = graph'
       /\ (lastOp' = "undo" /\ canUndo /\ lastOp \in {"contextDelete", "toolbarDelete"})
              => graph' = Last(undoSnap).pre]_vars

\* C38 (buffer and depth): the buffer exists exactly when the batch depth is
\* greater than 0, so pushCommand, which looks at the buffer, appends to it
\* exactly when a batch is open by the depth.
BufferIffDepth ==
    /\ batchDepth >= 0
    /\ (currentBatch # None) <=> (batchDepth > 0)

\* The inner stopBatch() of a nested batch that holds a Command returned,
\* also after a clear(): depth 1, and the buffer is still there.
BufferIffDepthWitness ==
    /\ lastOp = "stopBatch"
    /\ before.depth = 2
    /\ batchDepth = 1
    /\ currentBatch # None
    /\ BufferLen > 0

\* C39 (batch label): the batch a stopBatch() commits carries the label that
\* was passed to the startBatch() that opened its buffer, or none when none
\* was passed; a nested startBatch() leaves the pending label as it is; and
\* no label is pending when no batch is open, so none carries over to the
\* next batch.
OutermostLabel ==
    [][/\ BatchCommit' => Last(undoStack').label = outerLabel
       /\ (lastOp' = "startBatch" /\ batchDepth > 0)
              => pendingLabel' = pendingLabel
       /\ (lastOp' = "startBatch" /\ batchDepth = 0)
              => pendingLabel' = outerLabel'
       /\ batchDepth' = 0 => pendingLabel' = None]_vars

\* A batch opened as "drag" was committed after a batch opened as
\* "resize": the label on top is "drag", the one below "resize", and no
\* label is pending.
OutermostLabelWitness ==
    /\ BatchCommit
    /\ before.depth = 1
    /\ Len(undoStack) = 2
    /\ undoStack[1].label = Some("resize")
    /\ undoStack[2].label = Some("drag")
    /\ pendingLabel = None

====
